---- MODULE Spec2Model ----
(***************************************************************************)
(* Model of dashboardv5.py: the selection store (add_to_selection,         *)
(* remove_from_selection, get_all_selected_items) and the FX correlation   *)
(* tab of render_fx_page.                                                  *)
(*                                                                         *)
(* A Python dict keeps insertion order, so a dict is modelled as a         *)
(* sequence of [k, v] records with pairwise distinct keys; a Python list   *)
(* is a sequence.                                                          *)
(***************************************************************************)
EXTENDS Integers, Sequences, FiniteSets, TLC

\* ------------------------------------------------------------------------
\* Bounds and input sets of the selection store
\* ------------------------------------------------------------------------

\* Largest size of a tree after an add (its number of entries, an empty
\* category list counting for one).
MaxSize == 2

\* Longest ticker list passed to one add_to_selection call.
MaxTickers == 1

Regions == {"Europe", "US"}

Indexes == {"DAX", "CAC 40"}

Tickers == {"SAP.DE", "AIR.PA"}

\* ------------------------------------------------------------------------
\* Python dict primitives on sequences of [k, v] records
\* ------------------------------------------------------------------------

\* k in d
DictHas(d, k) == \E i \in DOMAIN d : d[i].k = k

\* d[k], for a key that is present
DictGet(d, k) == d[CHOOSE i \in DOMAIN d : d[i].k = k].v

\* d[k] = v : an existing key keeps its position, a new key goes last
DictSet(d, k, v) ==
    IF DictHas(d, k)
    THEN [i \in DOMAIN d |-> IF d[i].k = k THEN [k |-> k, v |-> v] ELSE d[i]]
    ELSE Append(d, [k |-> k, v |-> v])

\* del d[k]
DictDel(d, k) == SelectSeq(d, LAMBDA e : e.k # k)

\* x in list
InList(x, list) == \E i \in DOMAIN list : list[i] = x

\* ------------------------------------------------------------------------
\* Label functions handed to add_to_selection
\* ------------------------------------------------------------------------

\* What stock.info does for a ticker: it raises, or returns a dict.
Info(raised, fields) == [raised |-> raised, fields |-> fields]

LongName(ticker) == IF ticker = "SAP.DE" THEN "SAP SE" ELSE "Airbus SE"

ShortName(ticker) == IF ticker = "SAP.DE" THEN "SAP" ELSE "AIRBUS"

\* The answers of stock.info that are followed: the lookup raises, the dict
\* has neither name, it has the short name only, it has both names.
InfoKinds == {"raised", "empty", "short", "long"}

StockInfo(ticker, kind) ==
    IF kind = "raised" THEN Info(TRUE, <<>>)
    ELSE IF kind = "empty" THEN Info(FALSE, <<>>)
    ELSE IF kind = "short"
    THEN Info(FALSE, <<[k |-> "shortName", v |-> ShortName(ticker)]>>)
    ELSE Info(FALSE, <<[k |-> "longName", v |-> LongName(ticker)],
                       [k |-> "shortName", v |-> ShortName(ticker)]>>)

\* get_company_name: info["longName"], else info["shortName"], else the
\* ticker; the ticker as well when the lookup raises.
get_company_name(ticker, info) ==
    IF info.raised THEN ticker
    ELSE IF DictHas(info.fields, "longName") THEN DictGet(info.fields, "longName")
    ELSE IF DictHas(info.fields, "shortName") THEN DictGet(info.fields, "shortName")
    ELSE ticker

\* What stock.info answers for each ticker while one handler runs.
Lookups == {[t \in Tickers |-> StockInfo(t, kind)] : kind \in InfoKinds}

\* No lookup is made.
NoLookup == [t \in Tickers |-> Info(TRUE, <<>>)]

\* display_name_func is None
NoFunc == "None"

\* The values of the display_name_func argument.
DisplayFuncs == {NoFunc, "get_company_name"}

\* The lookups that the calls on the store follow: the provider has no name
\* for AIR.PA, and for SAP.DE the short name only or both names.
StoreLookups ==
    {[t \in Tickers |-> StockInfo(t, IF t = "SAP.DE" THEN kind ELSE "empty")] :
        kind \in {"short", "long"}}

\* The lookups a call with a label function can meet.
LookupsOf(display_name_func) ==
    IF display_name_func = "get_company_name" THEN StoreLookups ELSE {NoLookup}

\* Mutant of DisplayName: the default label is not the ticker.
DisplayName_AlwaysLookup(display_name_func, ticker, lookup) ==
    get_company_name(ticker, StockInfo(ticker, "long"))

\* display_name_func(ticker), or ticker when display_name_func is None
\* (lambda x, _name=index_name: _name is written as the label it returns.)
DisplayName(display_name_func, ticker, lookup) ==
    IF display_name_func = NoFunc THEN ticker
    ELSE IF display_name_func = "get_company_name"
         THEN get_company_name(ticker, lookup[ticker])
    ELSE display_name_func

\* ------------------------------------------------------------------------
\* The selection store
\* ------------------------------------------------------------------------

\* The for loop of add_to_selection over tickers, on the list of one category.
RECURSIVE AddTickers(_, _, _, _)
AddTickers(list, tickers, display_name_func, lookup) ==
    IF tickers = <<>> THEN list
    ELSE LET item == [ticker |-> Head(tickers),
                      display_name |-> DisplayName(display_name_func, Head(tickers),
                                                  lookup)]
             next == IF InList(item, list) THEN list ELSE Append(list, item)
         IN  AddTickers(next, Tail(tickers), display_name_func, lookup)

add_to_selection(selection_dict, region, index, tickers, display_name_func, lookup) ==
    LET d1   == IF DictHas(selection_dict, region) THEN selection_dict
                ELSE DictSet(selection_dict, region, <<>>)
        r1   == DictGet(d1, region)
        r2   == IF DictHas(r1, index) THEN r1 ELSE DictSet(r1, index, <<>>)
        list == AddTickers(DictGet(r2, index), tickers, display_name_func, lookup)
    IN  DictSet(d1, region, DictSet(r2, index, list))

\* Mutant of remove_from_selection: the filter tests the label, not the ticker.
remove_from_selection_ByLabel(selection_dict, region, index, tickers) ==
    IF DictHas(selection_dict, region) /\ DictHas(DictGet(selection_dict, region), index)
    THEN LET r0 == DictGet(selection_dict, region)
             items_to_keep == SelectSeq(DictGet(r0, index),
                                        LAMBDA item : item.display_name \notin tickers)
             r1 == DictSet(r0, index, items_to_keep)
             r2 == IF items_to_keep = <<>> THEN DictDel(r1, index) ELSE r1
         IN  IF r2 = <<>> THEN DictDel(selection_dict, region)
             ELSE DictSet(selection_dict, region, r2)
    ELSE selection_dict

\* Mutant of remove_from_selection: the emptied region is not deleted.
remove_from_selection_KeepRegion(selection_dict, region, index, tickers) ==
    IF DictHas(selection_dict, region) /\ DictHas(DictGet(selection_dict, region), index)
    THEN LET r0 == DictGet(selection_dict, region)
             items_to_keep == SelectSeq(DictGet(r0, index),
                                        LAMBDA item : item.ticker \notin tickers)
             r1 == DictSet(r0, index, items_to_keep)
             r2 == IF items_to_keep = <<>> THEN DictDel(r1, index) ELSE r1
         IN  DictSet(selection_dict, region, r2)
    ELSE selection_dict

\* Mutant of remove_from_selection: only the region is tested, a missing
\* category is created and left behind.
remove_from_selection_Unguarded(selection_dict, region, index, tickers) ==
    IF DictHas(selection_dict, region)
    THEN LET r0 == DictGet(selection_dict, region)
             old == IF DictHas(r0, index) THEN DictGet(r0, index) ELSE <<>>
             items_to_keep == SelectSeq(old, LAMBDA item : item.ticker \notin tickers)
             r1 == DictSet(r0, index, items_to_keep)
             r2 == IF items_to_keep = <<>> /\ DictHas(r0, index)
                   THEN DictDel(r1, index) ELSE r1
         IN  IF r2 = <<>> THEN DictDel(selection_dict, region)
             ELSE DictSet(selection_dict, region, r2)
    ELSE selection_dict

\* Mutant of remove_from_selection: every category list of the region is
\* filtered, not only the named one.
remove_from_selection_WholeRegion(selection_dict, region, index, tickers) ==
    IF DictHas(selection_dict, region) /\ DictHas(DictGet(selection_dict, region), index)
    THEN LET r0 == DictGet(selection_dict, region)
             r1 == [b \in DOMAIN r0 |->
                       [k |-> r0[b].k,
                        v |-> SelectSeq(r0[b].v, LAMBDA item : item.ticker \notin tickers)]]
             r2 == SelectSeq(r1, LAMBDA e : e.v # <<>> \/ e.k # index)
         IN  IF r2 = <<>> THEN DictDel(selection_dict, region)
             ELSE DictSet(selection_dict, region, r2)
    ELSE selection_dict

remove_from_selection(selection_dict, region, index, tickers) ==
    IF DictHas(selection_dict, region) /\ DictHas(DictGet(selection_dict, region), index)
    THEN LET r0 == DictGet(selection_dict, region)
             items_to_keep == SelectSeq(DictGet(r0, index),
                                        LAMBDA item : item.ticker \notin tickers)
             r1 == DictSet(r0, index, items_to_keep)
             r2 == IF items_to_keep = <<>> THEN DictDel(r1, index) ELSE r1
         IN  IF r2 = <<>> THEN DictDel(selection_dict, region)
             ELSE DictSet(selection_dict, region, r2)
    ELSE selection_dict

\* The records of one category list, in list order.
CategoryItems(region, index, items) ==
    [i \in DOMAIN items |-> [region |-> region, index |-> index,
                             ticker |-> items[i].ticker,
                             display_name |-> items[i].display_name]]

\* The records of one region: its categories in dict order.
RECURSIVE RegionItems(_, _)
RegionItems(region, indexes) ==
    IF indexes = <<>> THEN <<>>
    ELSE CategoryItems(region, Head(indexes).k, Head(indexes).v)
         \o RegionItems(region, Tail(indexes))

\* Mutant of get_all_selected_items: the regions are visited last to first.
RECURSIVE get_all_selected_items_Reversed(_)
get_all_selected_items_Reversed(selection_dict) ==
    IF selection_dict = <<>> THEN <<>>
    ELSE get_all_selected_items_Reversed(Tail(selection_dict))
         \o RegionItems(Head(selection_dict).k, Head(selection_dict).v)

RECURSIVE get_all_selected_items(_)
get_all_selected_items(selection_dict) ==
    IF selection_dict = <<>> THEN <<>>
    ELSE RegionItems(Head(selection_dict).k, Head(selection_dict).v)
         \o get_all_selected_items(Tail(selection_dict))

\* ------------------------------------------------------------------------
\* Numbers: exact rationals <<numerator, denominator>>, in lowest terms with
\* a positive denominator; <<0, 0>> is NaN
\* ------------------------------------------------------------------------

Abs(n) == IF n < 0 THEN -n ELSE n

RECURSIVE GCD(_, _)
GCD(a, b) == IF b = 0 THEN a ELSE GCD(b, a % b)

NaN == <<0, 0>>

IsNaN(x) == x[2] = 0

Rat(n, d) ==
    IF d = 0 THEN NaN
    ELSE LET g == GCD(Abs(n), Abs(d))
             s == IF d < 0 THEN -1 ELSE 1
         IN  <<(s * n) \div g, (s * d) \div g>>

RAdd(x, y) == IF IsNaN(x) \/ IsNaN(y) THEN NaN
              ELSE Rat(x[1] * y[2] + y[1] * x[2], x[2] * y[2])

RSub(x, y) == IF IsNaN(x) \/ IsNaN(y) THEN NaN
              ELSE Rat(x[1] * y[2] - y[1] * x[2], x[2] * y[2])

RMul(x, y) == IF IsNaN(x) \/ IsNaN(y) THEN NaN
              ELSE Rat(x[1] * y[1], x[2] * y[2])

\* x / y; 0 / 0 is NaN (no other division by zero arises here)
RDiv(x, y) == IF IsNaN(x) \/ IsNaN(y) THEN NaN
              ELSE Rat(x[1] * y[2], x[2] * y[1])

\* The sum of f[d] over d in S.
RECURSIVE RSum(_, _)
RSum(f, S) ==
    IF S = {} THEN <<0, 1>>
    ELSE LET d == CHOOSE e \in S : TRUE
         IN  RAdd(f[d], RSum(f, S \ {d}))

\* Series.mean(): NaN for an empty series.
SeriesMean(series) ==
    RDiv(RSum(series, DOMAIN series), <<Cardinality(DOMAIN series), 1>>)

\* ------------------------------------------------------------------------
\* Bounds and input sets of the FX correlation tab
\* ------------------------------------------------------------------------

\* The trading days of the selected date range are 1..MaxDate.
MaxDate == 3

Dates == 1..MaxDate

\* Closing rates a provider may quote.
Prices == {1, 2}

\* The base of the correlation tab.
base == "USD"

\* The options of the currency multiselect, sorted.
all_currencies == <<"EUR", "GBP", "USD">>

\* ------------------------------------------------------------------------
\* Fetching
\* ------------------------------------------------------------------------

\* What yf.download does for one ticker: it raises, or returns a frame whose
\* Close column is a series date -> rate (the empty frame has none).
ProviderOutcomes ==
    {[raised |-> TRUE, close |-> <<>>]}
    \cup {[raised |-> FALSE, close |-> s] :
              s \in UNION {[D -> Prices] : D \in SUBSET Dates}}

\* A Series or None.
None == [none |-> TRUE, data |-> <<>>]

Some(series) == [none |-> FALSE, data |-> series]

\* get_fx_data: the Close series of a non-empty frame, None when the download
\* raises or returns an empty frame.
get_fx_data(outcome) ==
    IF outcome.raised THEN None
    ELSE IF DOMAIN outcome.close = {} THEN None
    ELSE Some(outcome.close)

\* ------------------------------------------------------------------------
\* pandas operations used by the correlation tab
\* ------------------------------------------------------------------------

\* series.pct_change().dropna(): the change against the previous
\* observation; the first observation has none and is dropped.
PctChange(series) ==
    LET D == DOMAIN series
        first == CHOOSE d \in D : \A e \in D : d <= e
        prev(d) == CHOOSE p \in D : p < d /\ \A e \in D : e < d => e <= p
    IN  [d \in D \ {first} |->
            RSub(RDiv(<<series[d], 1>>, <<series[prev(d)], 1>>), <<1, 1>>)]

\* The sequence of keys of a dict.
Keys(d) == [i \in DOMAIN d |-> d[i].k]

\* pd.DataFrame(dict of Series): one column per key in dict order, indexed by
\* the union of the series' dates, NaN where a series has no value.
DataFrame(returns_data) ==
    LET idx == UNION {DOMAIN returns_data[i].v : i \in DOMAIN returns_data}
    IN  [columns |-> Keys(returns_data),
         index   |-> idx,
         data    |-> [c \in {returns_data[i].k : i \in DOMAIN returns_data} |->
                        [d \in idx |->
                            IF d \in DOMAIN DictGet(returns_data, c)
                            THEN DictGet(returns_data, c)[d] ELSE NaN]]]

\* Mutant of DropNaAny: dropna(how="all"), a row goes only when every cell
\* of it is NaN.
DropNaAny_All(df) ==
    LET keep == {d \in df.index : \E c \in DOMAIN df.data : ~IsNaN(df.data[c][d])}
    IN  [df EXCEPT !.index = keep,
                   !.data = [c \in DOMAIN df.data |-> [d \in keep |-> df.data[c][d]]]]

\* df.dropna(how="any"): a row goes when any cell of it is NaN.
DropNaAny(df) ==
    LET keep == {d \in df.index : \A c \in DOMAIN df.data : ~IsNaN(df.data[c][d])}
    IN  [df EXCEPT !.index = keep,
                   !.data = [c \in DOMAIN df.data |-> [d \in keep |-> df.data[c][d]]]]

\* Mutant of RowMean: df.sum(axis=1), the row is summed and not divided.
RowMean_Sum(df) ==
    [d \in df.index |->
        LET valid == {c \in DOMAIN df.data : ~IsNaN(df.data[c][d])}
        IN  RSum([c \in valid |-> df.data[c][d]], valid)]

\* df.mean(axis=1): per row, the mean of the cells that are not NaN.
RowMean(df) ==
    [d \in df.index |->
        LET valid == {c \in DOMAIN df.data : ~IsNaN(df.data[c][d])}
        IN  RDiv(RSum([c \in valid |-> df.data[c][d]], valid),
                 <<Cardinality(valid), 1>>)]

\* df[name] = series
SetColumn(df, name, series) ==
    [columns |-> IF InList(name, df.columns) THEN df.columns
                 ELSE Append(df.columns, name),
     index   |-> df.index,
     data    |-> [c \in DOMAIN df.data \cup {name} |->
                     IF c = name THEN series ELSE df.data[c]]]

\* df[ordered_cols]
SelectColumns(df, ordered_cols) ==
    [columns |-> ordered_cols,
     index   |-> df.index,
     data    |-> [c \in {ordered_cols[i] : i \in DOMAIN ordered_cols} |-> df.data[c]]]

\* A correlation coefficient r is kept as its sign and its square (r * r is
\* rational where r need not be); nan is TRUE when it is undefined.
NaNCorr == [nan |-> TRUE, sign |-> 0, sq |-> <<0, 1>>]

\* Mutant of Coefficient: the covariance is scaled by the first variance alone.
Coefficient_OneVariance(cov, vx, vy) ==
    IF vx[1] = 0 \/ vy[1] = 0 THEN NaNCorr
    ELSE [nan  |-> FALSE,
          sign |-> IF cov[1] > 0 THEN 1 ELSE IF cov[1] < 0 THEN -1 ELSE 0,
          sq   |-> RDiv(RMul(cov, cov), RMul(vx, vx))]

\* The coefficient from the covariance and the two variances, each times n * n.
Coefficient(cov, vx, vy) ==
    IF vx[1] = 0 \/ vy[1] = 0 THEN NaNCorr
    ELSE [nan  |-> FALSE,
          sign |-> IF cov[1] > 0 THEN 1 ELSE IF cov[1] < 0 THEN -1 ELSE 0,
          sq   |-> RDiv(RMul(cov, cov), RMul(vx, vy))]

\* The coefficient from the sums over n rows.
FromSums(n, sx, sy, sxy, sxx, syy) ==
    Coefficient(RSub(RMul(n, sxy), RMul(sx, sy)),
                RSub(RMul(n, sxx), RMul(sx, sx)),
                RSub(RMul(n, syy), RMul(sy, sy)))

\* The coefficient of x and y over the given rows.
OverRows(x, y, rows) ==
    FromSums(<<Cardinality(rows), 1>>, RSum(x, rows), RSum(y, rows),
             RSum([d \in rows |-> RMul(x[d], y[d])], rows),
             RSum([d \in rows |-> RMul(x[d], x[d])], rows),
             RSum([d \in rows |-> RMul(y[d], y[d])], rows))

\* Pearson correlation of two columns over the rows where both have a value;
\* NaN when one of them has no variance there (also with fewer than 2 rows).
Pearson(x, y) ==
    OverRows(x, y, {d \in DOMAIN x : ~IsNaN(x[d]) /\ ~IsNaN(y[d])})

\* The function f itself, with each of its values computed once.
Evaluated(f) == f @@ <<>>

\* df.corr(): the columns are read once, then every pair of them is taken.
Corr(df) ==
    LET data == Evaluated([c \in DOMAIN df.data |-> Evaluated(df.data[c])])
    IN  [columns |-> df.columns,
         value   |-> [a \in DOMAIN data |->
                        [b \in DOMAIN data |-> Pearson(data[a], data[b])]]]

\* ------------------------------------------------------------------------
\* The correlation tab of render_fx_page
\* ------------------------------------------------------------------------

\* Mutant of FetchLoop: only None is tested, a series of one observation and
\* its empty return series are taken.
RECURSIVE FetchLoop_NoLengthCheck(_, _, _)
FetchLoop_NoLengthCheck(ccys, quotes, acc) ==
    IF ccys = <<>> THEN acc
    ELSE LET ccy == Head(ccys)
         IN  IF ccy = base THEN FetchLoop_NoLengthCheck(Tail(ccys), quotes, acc)
             ELSE LET series == get_fx_data(quotes[ccy])
                      usable == ~series.none
                      rets   == PctChange(series.data)
                      took   == usable
                      acc2   == [rd |-> IF took THEN DictSet(acc.rd, ccy, rets) ELSE acc.rd,
                                 mr |-> IF took
                                        THEN DictSet(acc.mr, ccy,
                                                     RMul(SeriesMean(rets), <<100, 1>>))
                                        ELSE acc.mr,
                                 fetched |-> Append(acc.fetched, <<base, ccy>>)]
                  IN  FetchLoop_NoLengthCheck(Tail(ccys), quotes, acc2)

\* Mutant of FetchLoop: the base is not skipped, its series against itself is
\* requested like any counter's (the provider has none).
RECURSIVE FetchLoop_NoSkip(_, _, _)
FetchLoop_NoSkip(ccys, quotes, acc) ==
    IF ccys = <<>> THEN acc
    ELSE LET ccy == Head(ccys)
             series == IF ccy = base THEN None ELSE get_fx_data(quotes[ccy])
             usable == ~series.none /\ DOMAIN series.data # {}
                       /\ Cardinality(DOMAIN series.data) > 1
             rets   == PctChange(series.data)
             took   == usable /\ DOMAIN rets # {}
             acc2   == [rd |-> IF took THEN DictSet(acc.rd, ccy, rets) ELSE acc.rd,
                        mr |-> IF took
                               THEN DictSet(acc.mr, ccy,
                                            RMul(SeriesMean(rets), <<100, 1>>))
                               ELSE acc.mr,
                        fetched |-> Append(acc.fetched, <<base, ccy>>)]
         IN  FetchLoop_NoSkip(Tail(ccys), quotes, acc2)

\* The loop over the selected currencies: returns_data and mean_daily_returns
\* after it (rd, mr), and the counters fetched (fetched).
RECURSIVE FetchLoop(_, _, _)
FetchLoop(ccys, quotes, acc) ==
    IF ccys = <<>> THEN acc
    ELSE LET ccy == Head(ccys)
         IN  IF ccy = base THEN FetchLoop(Tail(ccys), quotes, acc)
             ELSE LET series == get_fx_data(quotes[ccy])
                      usable == ~series.none /\ DOMAIN series.data # {}
                                /\ Cardinality(DOMAIN series.data) > 1
                      rets   == PctChange(series.data)
                      took   == usable /\ DOMAIN rets # {}
                      acc2   == [rd |-> IF took THEN DictSet(acc.rd, ccy, rets) ELSE acc.rd,
                                 mr |-> IF took
                                        THEN DictSet(acc.mr, ccy,
                                                     RMul(SeriesMean(rets), <<100, 1>>))
                                        ELSE acc.mr,
                                 fetched |-> Append(acc.fetched, <<base, ccy>>)]
                  IN  FetchLoop(Tail(ccys), quotes, acc2)

NoFrame == [columns |-> <<>>, index |-> {}, data |-> <<>>]

NoMatrix == [columns |-> <<>>, value |-> <<>>]

\* What one pass of the tab leaves on the page.
View(message, acc, returns_df, corr_matrix) ==
    [message |-> message, returns_data |-> acc.rd, mean_daily_returns |-> acc.mr,
     fetched |-> acc.fetched, returns_df |-> returns_df, corr_matrix |-> corr_matrix]

NoView == View("", [rd |-> <<>>, mr |-> <<>>, fetched |-> <<>>], NoFrame, NoMatrix)

\* The body of the tab for the selected currencies and the provider's
\* answers (quotes: currency -> outcome of the download of USD against it).
CorrelationTab(selected, quotes) ==
    IF ~(selected # <<>> /\ Len(selected) > 1)
    THEN [NoView EXCEPT !.message = "select at least 2"]
    ELSE
    LET acc == FetchLoop(selected, quotes, [rd |-> <<>>, mr |-> <<>>, fetched |-> <<>>])
    IN  IF acc.rd = <<>> THEN View("no returns data", acc, NoFrame, NoMatrix)
        ELSE
        LET aligned == DropNaAny(DataFrame(acc.rd))
        IN  IF Len(aligned.columns) < 2 /\ ~InList("USD", selected)
            THEN View("need at least 2", acc, aligned, NoMatrix)
            ELSE
            LET usd_basket == RowMean(aligned)
                with_usd == IF InList("USD", selected)
                            THEN SetColumn(aligned, "USD", usd_basket) ELSE aligned
                mr2 == IF InList("USD", selected)
                       THEN DictSet(acc.mr, "USD",
                                    RMul(SeriesMean(usd_basket), <<100, 1>>))
                       ELSE acc.mr
                ordered_cols == SelectSeq(selected,
                                          LAMBDA c : InList(c, with_usd.columns))
                returns_df == SelectColumns(with_usd, ordered_cols)
            IN  View("matrix", [acc EXCEPT !.mr = mr2], returns_df, Corr(returns_df))

\* ------------------------------------------------------------------------
\* The FX rates table of render_fx_page
\* ------------------------------------------------------------------------

\* Calendar days are numbered from December 24th (day 1) of the year before
\* the quote date's year; NewYear is the number of January 1st.
NewYear == 9

\* The last calendar day a quote date or an observation may fall on.
MaxDay == 11

\* The most observations the provider holds for one pair.
MaxObs == 3

Days == 1..MaxDay

\* The quote dates of the date input: the days of the new year.
QuoteDates == NewYear..MaxDay

\* datetime(quote_date.year, 1, 1).date() on this calendar.
YearStart(date) == IF date >= NewYear THEN NewYear ELSE NewYear - 365

\* get_fx_rate_single_date looks back this many days from the date.
LookbackDays == 7

\* build_fx_table_4cols fetches this many days before the quote date.
TableWindowDays == 10

\* What the provider holds for one pair: nothing it can deliver (every
\* download raises), or closing rates on at most MaxObs days.
Histories ==
    {[raised |-> TRUE, close |-> <<>>]}
    \cup {[raised |-> FALSE, close |-> s] :
              s \in UNION {[D -> Prices] :
                              D \in {E \in SUBSET Days : Cardinality(E) <= MaxObs}}}

\* yf.download(ticker, start, end): the observations with start <= day < end.
Download(history, start_date, end_date) ==
    [raised |-> history.raised,
     close  |-> [d \in {x \in DOMAIN history.close : start_date <= x /\ x < end_date}
                    |-> history.close[d]]]

\* The latest day of a non-empty set of days.
LastDay(S) == CHOOSE d \in S : \A e \in S : e <= d

\* Mutant of get_fx_rate_single_date: the download reaches LookbackDays past
\* the date and the latest rate of the download is taken.
get_fx_rate_single_date_Latest(history, date) ==
    LET data == get_fx_data(Download(history, date - LookbackDays, date + LookbackDays))
    IN  IF data.none \/ DOMAIN data.data = {} THEN None
        ELSE IF date \in DOMAIN data.data THEN Some(Rat(data.data[date], 1))
        ELSE Some(Rat(data.data[LastDay(DOMAIN data.data)], 1))

\* get_fx_rate_single_date: the rate on the date, else the latest rate of the
\* LookbackDays days before it, else None.
get_fx_rate_single_date(history, date) ==
    LET data == get_fx_data(Download(history, date - LookbackDays, date + 1))
    IN  IF data.none \/ DOMAIN data.data = {} THEN None
        ELSE IF date \in DOMAIN data.data THEN Some(Rat(data.data[date], 1))
        ELSE LET available_dates == {d \in DOMAIN data.data : d <= date}
             IN  IF available_dates # {}
                 THEN Some(Rat(data.data[LastDay(available_dates)], 1))
                 ELSE None

\* The 1D % of a row: from the last two closes up to the quote date.
OneDayChange(history, quote_date) ==
    LET ser == get_fx_data(Download(history, quote_date - TableWindowDays,
                                    quote_date + 1))
    IN  IF ser.none \/ DOMAIN ser.data = {} THEN NaN
        ELSE LET ser2 == {d \in DOMAIN ser.data : d <= quote_date}
             IN  IF Cardinality(ser2) >= 2
                 THEN LET last_day == LastDay(ser2)
                          prev_day == LastDay(ser2 \ {last_day})
                          last_val == Rat(ser.data[last_day], 1)
                          prev     == Rat(ser.data[prev_day], 1)
                      IN  IF prev[1] # 0
                          THEN RMul(RDiv(RSub(last_val, prev), prev), <<100, 1>>)
                          ELSE NaN
                 ELSE NaN

\* The YTD % of a row from the rate at the quote date and the rate
\* get_fx_rate_single_date returns for January 1st.
YtdChange(rate, ytd_rate) ==
    IF ~rate.none /\ ~ytd_rate.none /\ ytd_rate.data[1] # 0
    THEN RMul(RDiv(RSub(rate.data, ytd_rate.data), ytd_rate.data), <<100, 1>>)
    ELSE NaN

\* The request get_fx_rate_single_date makes of get_fx_data for a pair and a
\* date.  The function is memoised (st.cache_data): a call with the
\* arguments of an earlier call (cached: the <<base, unit, date>> called
\* before) returns the stored rate and requests nothing.
RateRequests(base_currency, unit_currency, date, cached) ==
    IF <<base_currency, unit_currency, date>> \in cached THEN <<>>
    ELSE << <<base_currency, unit_currency>> >>

\* The loop of build_fx_table_4cols: the rows appended, and the pairs whose
\* series were requested from get_fx_data, in order.  Per row: the request
\* of get_fx_rate_single_date for the quote date, the request of the ten-day
\* window, and the request of get_fx_rate_single_date for January 1st.
\* acc.cached holds the calls of get_fx_rate_single_date that st.cache_data
\* has stored: those of earlier passes within the ttl and those of the loop
\* so far.  A stored call requests nothing; its stored rate is the rate the
\* provider's history gives, the history being the one of the call that
\* stored it.
RECURSIVE TableLoop(_, _, _, _, _)
TableLoop(base_ccy, currency_list, quote_date, rates, acc) ==
    IF currency_list = <<>> THEN acc
    ELSE LET ccy == Head(currency_list)
         IN  IF ccy = base_ccy
             THEN TableLoop(base_ccy, Tail(currency_list), quote_date, rates, acc)
             ELSE LET rate     == get_fx_rate_single_date(rates[ccy], quote_date)
                      d1       == OneDayChange(rates[ccy], quote_date)
                      ytd_start == YearStart(quote_date)
                      ytd_rate == get_fx_rate_single_date(rates[ccy], ytd_start)
                      ytd      == YtdChange(rate, ytd_rate)
                      row      == [Pair |-> <<base_ccy, ccy>>, Value |-> rate,
                                   D1 |-> d1, YTD |-> ytd]
                  IN  TableLoop(base_ccy, Tail(currency_list), quote_date, rates,
                                [rows |-> Append(acc.rows, row),
                                 fetched |->
                                     acc.fetched
                                     \o RateRequests(base_ccy, ccy, quote_date,
                                                     acc.cached)
                                     \o << <<base_ccy, ccy>> >>
                                     \o RateRequests(base_ccy, ccy, ytd_start,
                                                     acc.cached
                                                     \cup {<<base_ccy, ccy, quote_date>>}),
                                 cached |->
                                     acc.cached
                                     \cup {<<base_ccy, ccy, quote_date>>,
                                           <<base_ccy, ccy, ytd_start>>}])

\* build_fx_table_4cols.  After the loop the function formats the column
\* "Value" of pd.DataFrame(rows): when the loop appended no row (the list is
\* empty or holds only the base) the frame has no column and the lookup
\* raises KeyError, which nothing catches.  (rates: currency -> what the
\* provider holds for the pair of base_ccy and that currency; cached: the
\* calls of get_fx_rate_single_date stored before the call.)
build_fx_table_4cols(base_ccy, currency_list, quote_date, rates, cached) ==
    LET looped == TableLoop(base_ccy, currency_list, quote_date, rates,
                            [rows |-> <<>>, fetched |-> <<>>, cached |-> cached])
    IN  [raised |-> looped.rows = <<>>, rows |-> looped.rows,
         fetched |-> looped.fetched]

\* The calls of get_fx_rate_single_date that the loop of
\* build_fx_table_4cols makes, each stored by st.cache_data for its ttl.
RateCalls(base_ccy, currency_list, quote_date) ==
    UNION {{<<base_ccy, currency_list[i], quote_date>>,
            <<base_ccy, currency_list[i], YearStart(quote_date)>>} :
              i \in {j \in DOMAIN currency_list : currency_list[j] # base_ccy}}

\* The G10 list of FX_CURRENCIES, cut to two currencies.
g10_currencies == <<"EUR", "USD">>

\* list.remove(x) guarded by `x in list`: the list without x.
WithoutCurrency(list, x) == SelectSeq(list, LAMBDA c : c # x)

\* The G10 table of the tab for the selected table base and quote date
\* (cached: the calls of get_fx_rate_single_date stored before it is built).
RatesTable(fx_table_base_currency, fx_quote_date, rates, cached) ==
    LET built == build_fx_table_4cols(
                     fx_table_base_currency,
                     WithoutCurrency(g10_currencies, fx_table_base_currency),
                     fx_quote_date, rates, cached)
    IN  [shown |-> ~built.raised, raised |-> built.raised,
         base_ccy |-> fx_table_base_currency,
         quote_date |-> fx_quote_date, rows |-> built.rows,
         fetched |-> built.fetched]

\* The Emerging list of FX_CURRENCIES, cut to one currency.
em_currencies == <<"MXN">>

\* The Emerging table of the tab, built after the G10 table from the same
\* base and quote date.
EmergingTable(fx_table_base_currency, fx_quote_date, rates, cached) ==
    LET built == build_fx_table_4cols(
                     fx_table_base_currency,
                     WithoutCurrency(em_currencies, fx_table_base_currency),
                     fx_quote_date, rates, cached)
    IN  [shown |-> ~built.raised, raised |-> built.raised,
         base_ccy |-> fx_table_base_currency,
         quote_date |-> fx_quote_date, rows |-> built.rows,
         fetched |-> built.fetched]

NoTable == [shown |-> FALSE, raised |-> FALSE, base_ccy |-> "", quote_date |-> 0,
            rows |-> <<>>, fetched |-> <<>>]

\* ------------------------------------------------------------------------
\* get_equity_data
\* ------------------------------------------------------------------------

\* The most closes the provider holds for a ticker up to the end date.
MaxHist == 6

\* Closes the provider may hold (yields and spreads are quoted at or below 0).
EqPrices == {-1, 0, 2}

\* What the provider holds for a ticker up to the end date, oldest first.
PriceHistories == UNION {[1..n -> EqPrices] : n \in 0..MaxHist}

\* The last k observations of a history: the window from a start date to the
\* end date.
LastObs(h, k) == SubSeq(h, Len(h) - k + 1, Len(h))

\* A frame a provider call returns, or the fact that the call raised.
Raised == [raised |-> TRUE, close |-> <<>>]

Frame(close) == [raised |-> FALSE, close |-> close]

\* x > 0 on a float: False for NaN.
Positive(x) == ~IsNaN(x) /\ x[1] > 0

\* (current - past) / past * 100
ChangePct(current, past) == RMul(RDiv(RSub(current, past), past), <<100, 1>>)

\* Element i of a Close column counted from the end (iloc[-i]).
FromEnd(close, i) == Rat(close[Len(close) - i + 1], 1)

\* Mutant of DailyChangePct: the guard is prev_value != 0.
DailyChangePct_NonZeroGuard(close) ==
    LET current_value == FromEnd(close, 1)
        prev_value    == FromEnd(close, 2)
    IN  IF prev_value[1] # 0 THEN ChangePct(current_value, prev_value) ELSE <<0, 1>>

\* daily_change_pct of a Close column of 2 or more observations.
DailyChangePct(close) ==
    LET current_value == FromEnd(close, 1)
        prev_value    == FromEnd(close, 2)
    IN  IF Positive(prev_value) THEN ChangePct(current_value, prev_value) ELSE <<0, 1>>

\* week_change_pct of a Close column.
WeekChangePct(close) ==
    IF Len(close) >= 6
    THEN LET current_value  == FromEnd(close, 1)
             week_ago_value == FromEnd(close, 6)
         IN  IF Positive(week_ago_value)
             THEN ChangePct(current_value, week_ago_value) ELSE <<0, 1>>
    ELSE NaN

\* ytd_change_pct on the primary path, from the answer to the YTD request.
EquityYtdPct(current_value, ytd_data) ==
    IF ytd_data.raised THEN NaN
    ELSE IF Len(ytd_data.close) # 0 /\ Len(ytd_data.close) > 1
         THEN LET ytd_start_value == Rat(ytd_data.close[1], 1)
              IN  IF Positive(ytd_start_value)
                  THEN ChangePct(current_value, ytd_start_value) ELSE NaN
         ELSE NaN

\* The dict get_equity_data returns.
Metrics(value, daily, week, ytd) ==
    Some([Value |-> value, Daily |-> daily, Week |-> week, YTD |-> ytd])

\* get_equity_data, from the answers of the provider to stock.history for
\* the date range (hist), to stock.history from the YTD start (ytd_data) and
\* to yf.download for the date range (data, asked only when hist raised).
get_equity_data(hist, ytd_data, data) ==
    IF ~hist.raised
    THEN IF Len(hist.close) = 0 \/ Len(hist.close) < 2 THEN None
         ELSE Metrics(FromEnd(hist.close, 1), DailyChangePct(hist.close),
                      WeekChangePct(hist.close),
                      EquityYtdPct(FromEnd(hist.close, 1), ytd_data))
    ELSE IF data.raised THEN None
    ELSE IF Len(data.close) # 0 /\ Len(data.close) >= 2
         THEN Metrics(FromEnd(data.close, 1), DailyChangePct(data.close),
                      WeekChangePct(data.close), NaN)
         ELSE None

\* How the provider's calls end in one call of get_equity_data.
FetchModes == {"primary", "ytd raised", "fallback", "all raised"}

\* The provider's answers in one call: the history it holds, the number of
\* its observations from the start date (n_main) and from the YTD start
\* (n_ytd), and which of its calls raise.
EquityInput(history, n_main, n_ytd, mode) ==
    [history  |-> history,
     hist     |-> IF mode \in {"primary", "ytd raised"}
                  THEN Frame(LastObs(history, n_main)) ELSE Raised,
     ytd_data |-> IF mode = "ytd raised" THEN Raised
                  ELSE Frame(LastObs(history, n_ytd)),
     data     |-> IF mode = "all raised" THEN Raised
                  ELSE Frame(LastObs(history, n_main))]

NoEquityInput == [history |-> <<>>, hist |-> Raised, ytd_data |-> Raised,
                  data |-> Raised]

\* ------------------------------------------------------------------------
\* The sidebar and the routing of a pass of the script
\* ------------------------------------------------------------------------

page_options == {"My Dashboard", "Equity", "FX", "Rates/Bonds", "Commodities"}

\* The pages whose tables call get_equity_data.
EquityPages == page_options \ {"FX"}

\* Dates the date inputs may return and days the script may start on.
SidebarDates ==
    {[year |-> y, month |-> m, day |-> d] : y \in {2025, 2026}, m \in {1, 7}, d \in {1, 15}}

\* datetime(year, 1, 1).date()
JanuaryFirst(year) == [year |-> year, month |-> 1, day |-> 1]

\* calendar.isleap(year)
IsLeap(year) == (year % 4 = 0 /\ year % 100 # 0) \/ year % 400 = 0

DaysInMonth(year, month) ==
    IF month = 2 THEN (IF IsLeap(year) THEN 29 ELSE 28)
    ELSE IF month \in {4, 6, 9, 11} THEN 30 ELSE 31

DaysInYear(year) == IF IsLeap(year) THEN 366 ELSE 365

\* The days of a year that lie before a month of it.
RECURSIVE DaysBeforeMonth(_, _)
DaysBeforeMonth(year, month) ==
    IF month = 1 THEN 0
    ELSE DaysBeforeMonth(year, month - 1) + DaysInMonth(year, month - 1)

\* date.timetuple().tm_yday
DayOfYear(date) == DaysBeforeMonth(date.year, date.month) + date.day

\* The date of the n-th day counted from the first of a month.
RECURSIVE DateOfDay(_, _, _)
DateOfDay(year, month, n) ==
    IF n <= DaysInMonth(year, month) THEN [year |-> year, month |-> month, day |-> n]
    ELSE DateOfDay(year, month + 1, n - DaysInMonth(year, month))

\* date - timedelta(days=365)
YearBefore(date) ==
    LET n == DayOfYear(date) - 365
    IN  IF n >= 1 THEN DateOfDay(date.year, 1, n)
        ELSE DateOfDay(date.year - 1, 1, n + DaysInYear(date.year - 1))

\* Mutant of YtdStartDate: the year is taken from the start date.
YtdStartDate_FromStart(selected_start, selected_end) == JanuaryFirst(selected_start.year)

\* ytd_start_date as the sidebar computes it.
YtdStartDate(selected_start, selected_end) == JanuaryFirst(selected_end.year)

\* The arguments after the ticker of a get_equity_data call of a page.
EquityCall(selected_start, selected_end, ytd_start_date) ==
    [start_date |-> selected_start, end_date |-> selected_end,
     ytd_start_date |-> ytd_start_date]

\* ------------------------------------------------------------------------
\* How the fetch functions end: return or raise
\* ------------------------------------------------------------------------

\* The longest frame a download returns in a call that is followed to its end.
MaxFetch == 2

\* Closes of those frames.
FetchPrices == {0, 2}

FetchSeries == UNION {[1..n -> FetchPrices] : n \in 0..MaxFetch}

\* A frame of one column.
OneColumn(name, series) == <<[k |-> name, v |-> series]>>

\* The frames yf.download returns, as dicts of columns of one length: a
\* frame with a Close column, a frame with Open and Adj Close, a frame with
\* Open only, and a frame with no column at all.
FrameLayouts ==
    {OneColumn("Close", s) : s \in FetchSeries}
    \cup {OneColumn("Open", s) : s \in FetchSeries}
    \cup UNION {{<<[k |-> "Open", v |-> s], [k |-> "Adj Close", v |-> t]>> :
                    s, t \in [1..n -> FetchPrices]} : n \in 0..MaxFetch}
    \cup {<<>>}

\* What a provider call does: it raises, or returns a frame.
DownloadOutcomes ==
    {[kind |-> "exception", columns |-> <<>>]}
    \cup {[kind |-> "frame", columns |-> c] : c \in FrameLayouts}

\* The provider calls of get_equity_data that are followed: the frames of
\* one column.
OneColumnOutcomes == {o \in DownloadOutcomes : Len(o.columns) <= 1}

\* len(data)
Rows(columns) == IF columns = <<>> THEN 0 ELSE Len(columns[1].v)

\* data.empty
Empty(columns) == Rows(columns) = 0

\* data.iloc[:, 0]
FirstColumn(columns) == columns[1].v

\* How a Python call ends.
Returned(value) == [status |-> "returned", value |-> value]

Escaped == [status |-> "raised", value |-> None]

\* Mutant of ExceptReturnNone: the function has no except clause.
ExceptReturnNone_Reraise(body) == body

\* try: body / except: return None
ExceptReturnNone(body) == IF body.status = "raised" THEN Returned(None) ELSE body

\* The try block of get_historical_data: the Close column, else the Adj
\* Close column, else the first column, of a non-empty frame.
HistoricalBody(outcome) ==
    IF outcome.kind = "exception" THEN Escaped
    ELSE IF Empty(outcome.columns) THEN Returned(None)
    ELSE IF DictHas(outcome.columns, "Close")
         THEN Returned(Some(DictGet(outcome.columns, "Close")))
    ELSE IF DictHas(outcome.columns, "Adj Close")
         THEN Returned(Some(DictGet(outcome.columns, "Adj Close")))
    ELSE Returned(Some(FirstColumn(outcome.columns)))

get_historical_data(outcome) == ExceptReturnNone(HistoricalBody(outcome))

\* The try block of get_fx_data: the Close column, else the first column, of
\* a non-empty frame.
FxBody(outcome) ==
    IF outcome.kind = "exception" THEN Escaped
    ELSE IF Empty(outcome.columns) THEN Returned(None)
    ELSE IF DictHas(outcome.columns, "Close")
         THEN Returned(get_fx_data([raised |-> FALSE,
                                    close |-> DictGet(outcome.columns, "Close")]))
    ELSE Returned(get_fx_data([raised |-> FALSE,
                               close |-> FirstColumn(outcome.columns)]))

\* get_fx_data with its except clause as a step of its own.
FxDataCall(outcome) == ExceptReturnNone(FxBody(outcome))

\* What a provider call is to the path of get_equity_data that made it: the
\* path raises when the call raises and when it reads the Close column of a
\* frame that has none, which it does for 2 or more rows.
AsPath(outcome) ==
    IF outcome.kind = "exception" THEN Raised
    ELSE IF Rows(outcome.columns) < 2 /\ ~DictHas(outcome.columns, "Close")
         THEN Frame(IF outcome.columns = <<>> THEN <<>> ELSE FirstColumn(outcome.columns))
    ELSE IF ~DictHas(outcome.columns, "Close") THEN Raised
    ELSE Frame(DictGet(outcome.columns, "Close"))

\* get_equity_data with its outer except clause as a step of its own.
EquityDataCall(hist, ytd_data, data) ==
    ExceptReturnNone(
        Returned(get_equity_data(AsPath(hist), AsPath(ytd_data), AsPath(data))))

\* get_fx_rate_single_date with its except clause as a step of its own.
FxRateCall(history, date) == Returned(get_fx_rate_single_date(history, date))

NoFetch == [function |-> "", outcomes |-> <<>>, date |-> 0]

\* ------------------------------------------------------------------------
\* My Dashboard: market tables, central banks, economic indicators
\* ------------------------------------------------------------------------

\* The configuration, cut to two banks.
CENTRAL_BANK_SERIES ==
    << [k |-> "Federal Reserve (FED) - Fedfund proxy", v |-> "FEDFUNDS"],
       [k |-> "European Central Bank (ECB)", v |-> "ECBDFR"] >>

Placeholder == "your_fred_api_key_here"

FRED_API_KEYS == {Placeholder, "configured key"}

\* The longest series FRED returns.
MaxFred == 2

\* A rate in percent, written as the nearest hundredth and what is left of
\* it in thousandths: the rate is hundredths / 100 + rest / 1000 with rest
\* in -4..4, so that no rate lies half way between two hundredths.
Rate(hundredths, rest) == [hundredths |-> hundredths, rest |-> rest]

\* The rate in thousandths of a percent.
Thousandths(rate) == 10 * rate.hundredths + rate.rest

\* The rates -0.004, 0.000 and 1.234.
FredRates == {Rate(0, -4), Rate(0, 0), Rate(123, 4)}

\* What a FRED request does: it raises, or returns a series (empty or not).
FredOutcomes ==
    {[kind |-> "exception", series |-> <<>>]}
    \cup {[kind |-> "series", series |-> s] :
            s \in UNION {[1..n -> FredRates] : n \in 0..MaxFred}}

\* The texts of the 'Current Rate' field.  f"{current_rate:.2f}%" writes the
\* hundredth nearest to the rate and keeps the sign of a negative rate.
TwoDecimalsPct(current_rate) ==
    [text |-> "rate", negative |-> Thousandths(current_rate) < 0,
     hundredths |-> Abs(current_rate.hundredths)]

NotAvailableText == [text |-> "N/A", negative |-> FALSE, hundredths |-> 0]

ErrorText == [text |-> "Error", negative |-> FALSE, hundredths |-> 0]

\* f"{current_rate:.2f}%" if current_rate else "N/A"
CurrentRate(current_rate) ==
    IF Thousandths(current_rate) # 0 THEN TwoDecimalsPct(current_rate)
    ELSE NotAvailableText

BankRecord(bank_name, current_rate, series_id) ==
    [Bank |-> bank_name, CurrentRate |-> current_rate, FREDSeries |-> series_id]

\* Mutant of BankRow: a bank whose request raises gets no row.
BankRow_DropFailed(bank_name, series_id, outcome) ==
    IF outcome.kind = "exception" THEN <<>>
    ELSE IF outcome.series # <<>>
    THEN <<BankRecord(bank_name, CurrentRate(outcome.series[Len(outcome.series)]), series_id)>>
    ELSE <<BankRecord(bank_name, NotAvailableText, series_id)>>

\* One turn of the loop of get_central_bank_data: the rows it appends.
BankRow(bank_name, series_id, outcome) ==
    IF outcome.kind = "exception"
    THEN <<BankRecord(bank_name, ErrorText, series_id)>>
    ELSE IF outcome.series # <<>>
    THEN <<BankRecord(bank_name, CurrentRate(outcome.series[Len(outcome.series)]), series_id)>>
    ELSE <<BankRecord(bank_name, NotAvailableText, series_id)>>

RECURSIVE BankLoop(_, _, _)
BankLoop(i, responses, central_bank_data) ==
    IF i > Len(CENTRAL_BANK_SERIES) THEN central_bank_data
    ELSE BankLoop(i + 1, responses,
                  central_bank_data
                  \o BankRow(CENTRAL_BANK_SERIES[i].k, CENTRAL_BANK_SERIES[i].v, responses[i]))

\* responses[i] is what FRED does at the request for the i-th bank.
get_central_bank_data(responses) == BankLoop(1, responses, <<>>)

\* The market tables of the dashboard and the tickers of each, cut to two
\* indices, one pair and one indicator.
MarketTickers ==
    [Equity |-> <<"^GSPC", "^IXIC">>, FX |-> <<"EURUSD=X">>, Indicators |-> <<"^VIX">>]

MarketTables == {"Equity", "FX", "Indicators"}

\* fetched[i] tells whether get_equity_data returned a value for the i-th
\* ticker of the table; the table has a row for each that did.
MarketRows(table, fetched) ==
    SelectSeq([i \in DOMAIN MarketTickers[table] |-> [ticker |-> MarketTickers[table][i], fetched |-> fetched[i]]],
              LAMBDA row : row.fetched)

\* The market tables that are shown: those with a row.
MarketTablesShown(market) ==
    {table \in MarketTables : MarketRows(table, market[table]) # <<>>}

\* Mutant of CentralBanksTab: the key is not looked at.
CentralBanksTab_NoKeyCheck(key, responses) ==
    LET central_banks == get_central_bank_data(responses)
    IN  IF central_banks = <<>>
        THEN [messages |-> {"No central bank data available from FRED API."},
              requests |-> Len(CENTRAL_BANK_SERIES), central_banks |-> central_banks,
              tables |-> {}, returned |-> TRUE]
        ELSE [messages |-> {}, requests |-> Len(CENTRAL_BANK_SERIES),
              central_banks |-> central_banks,
              tables |-> {"Central Banks"}, returned |-> FALSE]

\* The Central Banks tab: what it tells the user, the FRED requests it makes,
\* the table it shows and whether it ends the pass with its early return.
CentralBanksTab(key, responses) ==
    IF key = Placeholder
    THEN [messages |-> {"FRED API Key not configured!"}, requests |-> 0,
          central_banks |-> <<>>, tables |-> {}, returned |-> FALSE]
    ELSE LET central_banks == get_central_bank_data(responses)
         IN  IF central_banks = <<>>
             THEN [messages |-> {"No central bank data available from FRED API."},
                   requests |-> Len(CENTRAL_BANK_SERIES), central_banks |-> central_banks,
                   tables |-> {}, returned |-> TRUE]
             ELSE [messages |-> {}, requests |-> Len(CENTRAL_BANK_SERIES),
                   central_banks |-> central_banks,
                   tables |-> {"Central Banks"}, returned |-> FALSE]

\* A pass of render_my_dashboard.
render_my_dashboard(key, market, responses) ==
    LET tab2 == CentralBanksTab(key, responses)
    IN  [messages      |-> tab2.messages,
         requests      |-> tab2.requests,
         central_banks |-> tab2.central_banks,
         returned      |-> tab2.returned,
         tables        |-> MarketTablesShown(market) \cup tab2.tables
                           \cup (IF tab2.returned THEN {} ELSE {"Economic Indicators"})]

Markets ==
    {[Equity |-> e, FX |-> f, Indicators |-> i] :
        e \in [1..2 -> BOOLEAN], f \in [1..1 -> BOOLEAN], i \in [1..1 -> BOOLEAN]}

NoDash == [key |-> "", market |-> <<>>, responses |-> <<>>]

NoPass == [messages |-> {}, requests |-> 0, central_banks |-> <<>>,
           returned |-> FALSE, tables |-> {}]

\* ------------------------------------------------------------------------
\* Equity page: default selection, sidebar buttons, the two tables
\* ------------------------------------------------------------------------

\* The configuration, cut to two regions, three indices and two equities.
EQUITY_INDICES ==
    << [k |-> "United States", v |-> << [k |-> "Russell 2000", v |-> "^RUT"] >>],
       [k |-> "Europe", v |-> << [k |-> "CAC 40 (France)", v |-> "^FCHI"],
                                 [k |-> "DAX (Germany)", v |-> "^GDAXI"] >>] >>

EQUITY_LISTS ==
    << [k |-> "CAC 40 (France)", v |-> <<"AIR.PA">>],
       [k |-> "DAX (Germany)", v |-> <<"SAP.DE">>] >>

\* idx_ticker_map's values for the indices of one region, in dict order.
RegionOptions(region, indices) ==
    [i \in DOMAIN indices |-> [region |-> region, index |-> indices[i].k,
                               ticker |-> indices[i].v, display_name |-> indices[i].k]]

\* idx_ticker_map's values with every region selected, in the order of
\* available_indices_idx.
RECURSIVE IndexOptionsOf(_)
IndexOptionsOf(regions) ==
    IF regions = <<>> THEN <<>>
    ELSE RegionOptions(Head(regions).k, Head(regions).v) \o IndexOptionsOf(Tail(regions))

IndexOptions == IndexOptionsOf(EQUITY_INDICES)

\* The loop that adds indices to the index store, each under its own name.
RECURSIVE AddIndices(_, _)
AddIndices(selection_dict, indices) ==
    IF indices = <<>> THEN selection_dict
    ELSE AddIndices(add_to_selection(selection_dict, Head(indices).region,
                                     Head(indices).index, <<Head(indices).ticker>>,
                                     Head(indices).display_name, NoLookup),
                    Tail(indices))

\* Mutant of initialize_selections: the store is left as it is.
initialize_selections_Never(selected_index_tickers) == selected_index_tickers

\* initialize_selections: an empty index store gets every index of
\* EQUITY_INDICES.
initialize_selections(selected_index_tickers) ==
    IF selected_index_tickers = <<>> THEN AddIndices(<<>>, IndexOptions)
    ELSE selected_index_tickers

\* equity_ticker_map's values for one selected index.
EquitiesOf(data) ==
    IF DictHas(EQUITY_LISTS, data.index)
    THEN [i \in DOMAIN DictGet(EQUITY_LISTS, data.index) |->
             [region |-> data.region, index |-> data.index,
              ticker |-> DictGet(EQUITY_LISTS, data.index)[i]]]
    ELSE <<>>

\* all_equities_options for the selected indices.
RECURSIVE EquityOptions(_)
EquityOptions(selected_indices_full) ==
    IF selected_indices_full = <<>> THEN <<>>
    ELSE EquitiesOf(Head(selected_indices_full)) \o EquityOptions(Tail(selected_indices_full))

\* The loop that adds equities to the equity store under their company names.
RECURSIVE AddEquities(_, _, _)
AddEquities(selection_dict, equities, lookup) ==
    IF equities = <<>> THEN selection_dict
    ELSE AddEquities(add_to_selection(selection_dict, Head(equities).region,
                                      Head(equities).index, <<Head(equities).ticker>>,
                                      "get_company_name", lookup),
                     Tail(equities), lookup)

\* The subsequences of a sequence: what a multiselect over it can hold.
RECURSIVE SubSeqs(_)
SubSeqs(s) ==
    IF s = <<>> THEN {<<>>}
    ELSE LET rest == SubSeqs(Tail(s))
         IN  rest \cup {<<Head(s)>> \o r : r \in rest}

\* The buttons of the Equity page's sidebar that write a selection store.
IndexButtons == {"select_all_idx_btn", "idx_add_btn", "idx_clear_btn"}

EquityButtons == {"select_all_eq_btn", "eq_add_btn", "eq_clear_btn"}

\* The stores after the sidebar of the Equity page with one button pressed.
SidebarButton(stores, button, selected_indices_full, selected_equities_display, lookup) ==
    IF button = "select_all_idx_btn"
    THEN [stores EXCEPT !.indices = AddIndices(<<>>, IndexOptions)]
    ELSE IF button = "idx_add_btn"
    THEN [stores EXCEPT !.indices = AddIndices(stores.indices, selected_indices_full)]
    ELSE IF button = "idx_clear_btn"
    THEN [stores EXCEPT !.indices = <<>>]
    ELSE IF button = "select_all_eq_btn"
    THEN [stores EXCEPT !.equities = AddEquities(<<>>, EquityOptions(selected_indices_full),
                                                 lookup)]
    ELSE IF button = "eq_add_btn"
    THEN [stores EXCEPT !.equities = AddEquities(stores.equities, selected_equities_display,
                                                 lookup)]
    ELSE [stores EXCEPT !.equities = <<>>]

\* The cells of a table row.
Cell(text, x) == [text |-> text, x |-> x]

Blank == Cell("", NaN)

NotAvailable == Cell("N/A", NaN)

\* format_value: a number with the chosen decimals, "N/A" for NaN, any
\* string as it is.
format_value(val) ==
    IF val.text = "number" THEN (IF IsNaN(val.x) THEN NotAvailable ELSE Cell("decimal", val.x))
    ELSE val

\* format_percentage: a number with two decimals and '%', "N/A" for "N/A",
\* the empty string for anything else.
format_percentage(val) ==
    IF val.text = "number" /\ ~IsNaN(val.x) THEN Cell("percent", val.x)
    ELSE IF val.text = "N/A" THEN NotAvailable
    ELSE Blank

Row(kind, label, value, daily, week, ytd) ==
    [kind |-> kind, label |-> label, Value |-> format_value(value),
     Daily |-> format_percentage(daily), Week |-> format_percentage(week),
     YTD |-> format_percentage(ytd)]

HeaderRow(kind, label) == Row(kind, label, Blank, Blank, Blank, Blank)

\* Mutant of TickerRow: an item whose fetch returns None gets no row.
TickerRow_DropAbsent(item, result) ==
    IF ~result.none
    THEN <<Row("ticker", item.display_name, Cell("number", result.data.Value),
               Cell("number", result.data.Daily), Cell("number", result.data.Week),
               Cell("number", result.data.YTD))>>
    ELSE <<>>

\* The rows a selected item adds to all_data / equity_data.
TickerRow(item, result) ==
    IF ~result.none
    THEN <<Row("ticker", item.display_name, Cell("number", result.data.Value),
               Cell("number", result.data.Daily), Cell("number", result.data.Week),
               Cell("number", result.data.YTD))>>
    ELSE <<Row("ticker", item.display_name, NotAvailable, NotAvailable,
               NotAvailable, NotAvailable)>>

RECURSIVE TickerRows(_, _)
TickerRows(items, results) ==
    IF items = <<>> THEN <<>>
    ELSE TickerRow(Head(items), results[Head(items).ticker])
         \o TickerRows(Tail(items), results)

\* The keys of a dict built with setdefault from the items: the values of a
\* field in the order of their first appearance.
RECURSIVE FirstSeen(_, _, _)
FirstSeen(items, field, seen) ==
    IF items = <<>> THEN seen
    ELSE FirstSeen(Tail(items), field,
                   IF \E i \in DOMAIN seen : seen[i] = Head(items)[field] THEN seen
                   ELSE Append(seen, Head(items)[field]))

\* The rows of the Market Indices table for the regions from the i-th on.
RECURSIVE IndexRegionRows(_, _, _, _)
IndexRegionRows(regions, i, items, results) ==
    IF i > Len(regions) THEN <<>>
    ELSE <<HeaderRow("region", regions[i])>>
         \o TickerRows(SelectSeq(items, LAMBDA idx : idx.region = regions[i]), results)
         \o (IF i < Len(regions) THEN <<HeaderRow("blank", "")>> ELSE <<>>)
         \o IndexRegionRows(regions, i + 1, items, results)

\* The rows of one region of the Individual Equities table for its indexes
\* from the j-th on.
RECURSIVE EquityIndexRows(_, _, _, _)
EquityIndexRows(indexes, j, items, results) ==
    IF j > Len(indexes) THEN <<>>
    ELSE <<HeaderRow("index", indexes[j])>>
         \o TickerRows(SelectSeq(items, LAMBDA equity : equity.index = indexes[j]), results)
         \o EquityIndexRows(indexes, j + 1, items, results)

RECURSIVE EquityRegionRows(_, _, _, _)
EquityRegionRows(regions, i, items, results) ==
    IF i > Len(regions) THEN <<>>
    ELSE LET of_region == SelectSeq(items, LAMBDA equity : equity.region = regions[i])
         IN  <<HeaderRow("region", regions[i])>>
             \o EquityIndexRows(FirstSeen(of_region, "index", <<>>), 1, of_region, results)
             \o (IF i < Len(regions) THEN <<HeaderRow("blank", "")>> ELSE <<>>)
             \o EquityRegionRows(regions, i + 1, items, results)

\* The Market Indices tab: its table, and whether color_pct got defined.
MarketIndicesTab(selected_index_tickers, results) ==
    LET all_selected_indices == get_all_selected_items(selected_index_tickers)
    IN  IF all_selected_indices # <<>>
        THEN [items |-> all_selected_indices,
              rows |-> IndexRegionRows(FirstSeen(all_selected_indices, "region", <<>>), 1,
                                       all_selected_indices, results),
              color_pct |-> TRUE]
        ELSE [items |-> <<>>, rows |-> <<>>, color_pct |-> FALSE]

\* The Individual Equities tab: its table, or the NameError of styling it
\* with a color_pct that was never defined.
IndividualEquitiesTab(selected_equity_tickers, results, color_pct) ==
    LET all_selected_equities == get_all_selected_items(selected_equity_tickers)
    IN  IF all_selected_equities # <<>>
        THEN IF color_pct
             THEN [items |-> all_selected_equities,
                   rows |-> EquityRegionRows(FirstSeen(all_selected_equities, "region", <<>>), 1,
                                             all_selected_equities, results),
                   error |-> "none"]
             ELSE [items |-> all_selected_equities, rows |-> <<>>, error |-> "NameError"]
        ELSE [items |-> <<>>, rows |-> <<>>, error |-> "none"]

NoTab == [items |-> <<>>, rows |-> <<>>]

\* The tickers of the cut configuration and what get_equity_data returns for
\* each during one pass.
PageTickers == {"^RUT", "^FCHI", "^GDAXI", "AIR.PA", "SAP.DE"}

PageResults ==
    [PageTickers -> {None,
                     Metrics(<<1, 1>>, <<0, 1>>, NaN, NaN),
                     Metrics(<<2, 1>>, <<1, 1>>, <<-1, 1>>, <<1, 2>>)}]

Stores(indices, equities) == [indices |-> indices, equities |-> equities]

\* What a pass leaves behind: the page, the button pressed, the pass whose
\* st.rerun() started it, the stores it found, the tabs it built.
Pass(page, button, after, before, results, tab1, tab2, error, rerun) ==
    [page |-> page, button |-> button, after |-> after, before |-> before,
     results |-> results, tab1 |-> tab1, tab2 |-> tab2, error |-> error,
     rerun |-> rerun]

\* No fetch is made.
NoResults == [ticker \in PageTickers |-> None]

NoPagePass ==
    Pass("", "none", "none", Stores(<<>>, <<>>), NoResults, NoTab, NoTab, "none", FALSE)

\* A pass of render_equity_page in which a sidebar button is pressed: it
\* ends at the button's st.rerun().
equity_page_button(stores, button, selected_indices_full, selected_equities_display, lookup) ==
    SidebarButton(Stores(initialize_selections(stores.indices), stores.equities),
                  button, selected_indices_full, selected_equities_display, lookup)

\* A pass of render_equity_page in which no button is pressed: the stores
\* after it and the two tabs.
render_equity_page(stores, results) ==
    LET indices == initialize_selections(stores.indices)
        tab1    == MarketIndicesTab(indices, results)
        tab2    == IndividualEquitiesTab(stores.equities, results, tab1.color_pct)
    IN  [stores |-> Stores(indices, stores.equities),
         tab1   |-> [items |-> tab1.items, rows |-> tab1.rows],
         tab2   |-> [items |-> tab2.items, rows |-> tab2.rows],
         error  |-> tab2.error]

\* ------------------------------------------------------------------------
\* Chart lists of the Equity and FX pages
\* ------------------------------------------------------------------------

Asset(type, region, name, ticker, display) ==
    [type |-> type, region |-> region, name |-> name, ticker |-> ticker,
     display |-> display]

\* chart_assets as a pass builds it, cut to one index, one equity and one
\* pair.  The equity is offered under the name get_company_name gives it in
\* the pass; a display text is written as the tuple of its parts.
chart_assets(lookup) ==
    LET company_name == get_company_name("SAP.DE", lookup["SAP.DE"])
    IN  << Asset("Index", "Europe", "DAX (Germany)", "^GDAXI",
                 <<"DAX (Germany)", "Europe">>),
           Asset("Equity", "Europe", company_name, "SAP.DE",
                 <<company_name, "SAP.DE">>),
           Asset("FX", "Forex", "EUR/USD", "EURUSD=X", <<"EUR/USD">>) >>

\* any(item[field] == value for item in items)
AnyWith(items, field, value) == \E i \in DOMAIN items : items[i][field] = value

\* Mutant of AddToChartLoop: an asset is appended whatever the list holds.
RECURSIVE AddToChartLoop_NoCheck(_, _)
AddToChartLoop_NoCheck(items, selected_chart_assets) ==
    IF selected_chart_assets = <<>> THEN items
    ELSE AddToChartLoop_NoCheck(Append(items, Head(selected_chart_assets)),
                                Tail(selected_chart_assets))

\* The loop of 'Add to Chart' over the selected assets.
RECURSIVE AddToChartLoop(_, _)
AddToChartLoop(items, selected_chart_assets) ==
    IF selected_chart_assets = <<>> THEN items
    ELSE LET asset == Head(selected_chart_assets)
         IN  AddToChartLoop(IF ~AnyWith(items, "ticker", asset.ticker)
                            THEN Append(items, asset) ELSE items,
                            Tail(selected_chart_assets))

\* list.remove(item): the list without its first element equal to item.
ListRemove(items, item) ==
    LET first == CHOOSE i \in DOMAIN items :
                     items[i] = item /\ \A j \in 1..(i - 1) : items[j] # item
    IN  [i \in 1..(Len(items) - 1) |-> IF i < first THEN items[i] ELSE items[i + 1]]

\* The currencies of the two select boxes of the FX pair analysis, cut to two.
PairCurrencies == {"EUR", "USD"}

FxItem(fx_base_currency, fx_unit_currency) ==
    [pair |-> <<fx_base_currency, fx_unit_currency>>, base |-> fx_base_currency,
     unit |-> fx_unit_currency]

\* 'Add to FX Charts' for the pair of the select boxes.
AddFxPair(items, fx_base_currency, fx_unit_currency) ==
    IF ~AnyWith(items, "pair", <<fx_base_currency, fx_unit_currency>>)
    THEN Append(items, FxItem(fx_base_currency, fx_unit_currency))
    ELSE items

\* The keys of the Remove buttons drawn for a list.
RemoveKeys(prefix, items, field) ==
    [i \in DOMAIN items |-> [prefix |-> prefix, of |-> items[i][field]]]

\* ------------------------------------------------------------------------
\* The pair selector and the FX charts of render_fx_page
\* ------------------------------------------------------------------------

\* The earliest day of a non-empty set of days.
FirstDay(S) == CHOOSE d \in S : \A e \in S : d <= e

\* ((a - b) / b * 100) if b > 0 else 0
ChangeOrZero(a, b) ==
    IF b[1] > 0 THEN RMul(RDiv(RSub(a, b), b), <<100, 1>>) ELSE Rat(0, 1)

\* The second tab: the request for the selected pair over the sidebar's
\* range and, when it has data, the request from ytd_start_date, the three
\* metrics and the 'Add to FX Charts' button.  (current, ytd: what the
\* provider answers to the two requests.)
PairTab(fx_base_currency, fx_unit_currency, current, ytd) ==
    LET current_data == get_fx_data(current)
        pair == <<fx_base_currency, fx_unit_currency>>
    IN  IF current_data.none
        THEN [pair |-> pair, requests |-> <<"selected_start">>, shown |-> "warning",
              current_rate |-> NaN, daily_change |-> NaN, ytd_change |-> NaN,
              add_button |-> FALSE]
        ELSE LET days         == DOMAIN current_data.data
                 current_rate == Rat(current_data.data[LastDay(days)], 1)
                 daily_change ==
                     IF Cardinality(days) > 1
                     THEN ChangeOrZero(
                              current_rate,
                              Rat(current_data.data[LastDay(days \ {LastDay(days)})], 1))
                     ELSE Rat(0, 1)
                 ytd_data     == get_fx_data(ytd)
                 ytd_change   ==
                     IF ~ytd_data.none /\ Cardinality(DOMAIN ytd_data.data) > 1
                     THEN ChangeOrZero(
                              current_rate,
                              Rat(ytd_data.data[FirstDay(DOMAIN ytd_data.data)], 1))
                     ELSE NaN
             IN  [pair |-> pair, requests |-> <<"selected_start", "ytd_start_date">>,
                  shown |-> "metrics", current_rate |-> current_rate,
                  daily_change |-> daily_change, ytd_change |-> ytd_change,
                  add_button |-> TRUE]

NoPairTab ==
    [pair |-> <<"", "">>, requests |-> <<>>, shown |-> "", current_rate |-> NaN,
     daily_change |-> NaN, ytd_change |-> NaN, add_button |-> FALSE]

\* The third tab below its buttons: one request per charted pair, one trace
\* per pair that has data.  (answers: charted pair -> what the provider
\* answers to its request over the sidebar's range.)
FxChartsTab(items, answers) ==
    LET with_data == SelectSeq(items,
                         LAMBDA item : ~get_fx_data(answers[item.pair]).none)
    IN  IF items = <<>> THEN [shown |-> "info", requests |-> <<>>, traces |-> <<>>]
        ELSE [shown    |-> IF with_data # <<>> THEN "chart" ELSE "warning",
              requests |-> [i \in DOMAIN items |-> items[i].pair],
              traces   |-> [i \in DOMAIN with_data |-> with_data[i].pair]]

NoChartsTab == [shown |-> "", requests |-> <<>>, traces |-> <<>>]

\* The buttons of the page that change the session: none pressed, 'Add to FX
\* Charts', 'Clear All FX Charts', or the Remove button of the i-th pair.
FxButton(name, index) == [name |-> name, index |-> index]

FxButtons(items) ==
    {FxButton("none", 0), FxButton("add_fx_btn", 0), FxButton("clear_fx_btn", 0)}
    \cup {FxButton("remove_fx", i) : i \in DOMAIN items}

\* ------------------------------------------------------------------------
\* State
\* ------------------------------------------------------------------------

VARIABLES
    tree,        \* the selection dict of the session (region -> index -> list)
    last,        \* the last call made on the store, with facts of its pre-state
    all_items,   \* the list returned by the last get_all_selected_items call
    fx_pc,       \* "idle" between passes of the FX page, then "done", "rerun" or "raised"
    selected_currencies,  \* the value of the currency multiselect in the pass
    fx_quotes,   \* the provider's answer for each counter currency in the pass
    fx_view,     \* what the correlation tab computed and showed in the pass
    fx_rates,    \* what the provider holds for each currency against the table base
    fx_table,    \* what the G10 rates table requested and showed in the pass
    fx_em_table, \* what the Emerging rates table requested and showed in the pass
    fx_pair_tab, \* what the pair selector requested and showed in the pass
    fx_charts_tab, \* what the FX charts tab requested and showed in the pass
    fx_widgets,  \* the widget values of a pass ended by st.rerun(), read again by the next
    fx_answers,  \* what the provider held in that pass, and holds in the next
    fx_rate_cache, \* the calls of get_fx_rate_single_date that st.cache_data holds
    eq_pc,       \* "idle", or "returned" after a call of get_equity_data
    eq_in,       \* the provider's answers in that call
    eq_out,      \* what the call returned
    session,     \* st.session_state: page, selected_start, selected_end, ytd_start_date
    pass_end,    \* how the last pass of the script ended: "rerun" or "rendered"
    equity_calls, \* the arguments of the get_equity_data calls of the last pass
    fetch_call,  \* the fetch function called last and the provider's answers
    fetch_out,   \* how that call ended
    dash_call,   \* the key, the provider's and FRED's answers of the dashboard pass
    dash_out,    \* what that pass showed
    selected_index_tickers,   \* st.session_state.selected_index_tickers
    selected_equity_tickers,  \* st.session_state.selected_equity_tickers
    view_page,   \* st.session_state.page, as the page passes read it
    page_pass,   \* what the last pass was and what it built
    chart_items,     \* st.session_state.chart_items
    fx_chart_items,  \* st.session_state.fx_chart_items
    chart_last       \* the chart button pressed last

selVars == <<tree, last, all_items>>

corrVars == <<selected_currencies, fx_quotes, fx_view>>

tableVars == <<fx_rates, fx_table, fx_em_table>>

pairVars == <<fx_pair_tab, fx_charts_tab>>

cacheVars == <<fx_widgets, fx_answers, fx_rate_cache>>

fxVars == <<fx_pc, corrVars, tableVars, pairVars, cacheVars>>

eqVars == <<eq_pc, eq_in, eq_out>>

sbVars == <<session, pass_end, equity_calls>>

fetchVars == <<fetch_call, fetch_out>>

dashVars == <<dash_call, dash_out>>

pageVars == <<selected_index_tickers, selected_equity_tickers, view_page, page_pass>>

chartVars == <<chart_items, fx_chart_items, chart_last>>

appVars == <<fetchVars, dashVars, pageVars, chartVars>>

vars == <<selVars, fxVars, eqVars, sbVars, appVars>>

\* Number of leaf entries of the categories of one region.
RECURSIVE SumLen(_)
SumLen(indexes) ==
    IF indexes = <<>> THEN 0 ELSE Len(Head(indexes).v) + SumLen(Tail(indexes))

\* Number of leaf entries of a tree.
RECURSIVE LeafCount(_)
LeafCount(selection_dict) ==
    IF selection_dict = <<>> THEN 0
    ELSE SumLen(Head(selection_dict).v) + LeafCount(Tail(selection_dict))

\* Number of empty category lists of a tree.
RECURSIVE EmptyCount(_)
EmptyCount(selection_dict) ==
    IF selection_dict = <<>> THEN 0
    ELSE Len(SelectSeq(Head(selection_dict).v, LAMBDA e : e.v = <<>>))
         + EmptyCount(Tail(selection_dict))

TreeSize(selection_dict) == LeafCount(selection_dict) + EmptyCount(selection_dict)

\* The list tree[region][index], or the empty list when a key is absent.
ListAt(selection_dict, region, index) ==
    IF DictHas(selection_dict, region) /\ DictHas(DictGet(selection_dict, region), index)
    THEN DictGet(DictGet(selection_dict, region), index)
    ELSE <<>>

TickerLists == UNION {[1..n -> Tickers] : n \in 0..MaxTickers}

\* A call on the store: its name and target, and what the tree held before it.
\* had_region / had_index: tree[region] / tree[region][index] existed;
\* had_ticker: an entry of tree[region][index] had one of the given tickers;
\* was_empty: the tree had no region.
Call(name, region, index, ticker_set) ==
    [name |-> name, region |-> region, index |-> index,
     had_region |-> DictHas(tree, region),
     had_index  |-> DictHas(tree, region) /\ DictHas(DictGet(tree, region), index),
     had_ticker |-> \E i \in DOMAIN ListAt(tree, region, index) :
                        ListAt(tree, region, index)[i].ticker \in ticker_set,
     was_empty  |-> tree = <<>>]

NoCall == [name |-> "none", region |-> "", index |-> "",
           had_region |-> FALSE, had_index |-> FALSE, had_ticker |-> FALSE,
           was_empty |-> TRUE]

\* The set of elements of a sequence.
Range(s) == {s[i] : i \in DOMAIN s}

SelInit ==
    /\ tree = <<>>
    /\ last = NoCall
    /\ all_items = <<>>

Counters == {all_currencies[i] : i \in DOMAIN all_currencies} \ {base}

\* No download is made for a currency that is not selected.
NotAsked == [raised |-> TRUE, close |-> <<>>]

\* The options of the table base, cut to the G10 currencies.
TableCurrencies == Range(g10_currencies)

\* The currencies of the two tables.
RateCurrencies == Range(g10_currencies) \cup Range(em_currencies)

\* No pass is about to be started by st.rerun().
NoWidgets == [fx_table_base_currency |-> "", fx_quote_date |-> 0, fx_base_currency |-> "", fx_unit_currency |-> "", button |-> [name |-> "none", index |-> 0], selected_currencies |-> <<>>]

NoAnswers == [rates |-> [c \in RateCurrencies |-> NotAsked], current |-> NotAsked, ytd |-> NotAsked, other |-> NotAsked, quotes |-> [c \in Counters |-> NotAsked]]

FxIdle ==
    /\ fx_widgets = NoWidgets
    /\ fx_answers = NoAnswers
    /\ fx_rate_cache = {}
    /\ fx_pc = "idle"
    /\ selected_currencies = <<>>
    /\ fx_quotes = [c \in Counters |-> NotAsked]
    /\ fx_view = NoView
    /\ fx_rates = [c \in RateCurrencies |-> NotAsked]
    /\ fx_table = NoTable
    /\ fx_em_table = NoTable
    /\ fx_pair_tab = NoPairTab
    /\ fx_charts_tab = NoChartsTab

EqIdle ==
    /\ eq_pc = "idle"
    /\ eq_in = NoEquityInput
    /\ eq_out = None

\* The session after its initialization; the script starts on 2026-01-15.
SbInit ==
    LET now == [year |-> 2025, month |-> 1, day |-> 15]
    IN  /\ session = [page |-> "My Dashboard",
                      selected_start |-> YearBefore(now),
                      selected_end |-> now,
                      ytd_start_date |-> [now EXCEPT !.month = 1, !.day = 1]]
        /\ pass_end = "none"
        /\ equity_calls = {}

FetchInit ==
    /\ fetch_call = NoFetch
    /\ fetch_out = Returned(None)

DashInit ==
    /\ dash_call = NoDash
    /\ dash_out = NoPass

PageInit ==
    /\ selected_index_tickers = <<>>
    /\ selected_equity_tickers = <<>>
    /\ view_page = "My Dashboard"
    /\ page_pass = NoPagePass

ChartInit ==
    /\ chart_items = <<>>
    /\ fx_chart_items = <<>>
    /\ chart_last = "none"

AppInit == FetchInit /\ DashInit /\ PageInit /\ ChartInit

Init == SelInit /\ FxIdle /\ EqIdle /\ SbInit /\ AppInit

\* A user action that calls add_to_selection on the session's tree.
Add(region, index, tickers, display_name_func, lookup) ==
    LET post == add_to_selection(tree, region, index, tickers, display_name_func,
                                 lookup)
    IN  /\ TreeSize(post) <= MaxSize
        /\ tree' = post
        /\ last' = Call("add", region, index, Range(tickers))
        /\ all_items' = <<>>

\* A call of remove_from_selection on the session's tree.
Remove(region, index, tickers) ==
    /\ tree' = remove_from_selection(tree, region, index, tickers)
    /\ last' = Call("remove", region, index, tickers)
    /\ all_items' = <<>>

\* A table build: all_items is the list get_all_selected_items returns.
Flatten ==
    /\ all_items' = get_all_selected_items(tree)
    /\ last' = [NoCall EXCEPT !.name = "flatten", !.was_empty = (tree = <<>>)]
    /\ UNCHANGED tree

Next ==
    \/ \E region \in Regions, index \in Indexes, tickers \in TickerLists,
          display_name_func \in DisplayFuncs :
          \E lookup \in LookupsOf(display_name_func) :
              Add(region, index, tickers, display_name_func, lookup)
              /\ UNCHANGED <<fxVars, eqVars, sbVars, appVars>>
    \/ \E region \in Regions, index \in Indexes, tickers \in SUBSET Tickers :
          Remove(region, index, tickers) /\ UNCHANGED <<fxVars, eqVars, sbVars, appVars>>
    \/ Flatten /\ UNCHANGED <<fxVars, eqVars, sbVars, appVars>>

Spec == Init /\ [][Next]_vars

\* The values the multiselect can return: its options, each at most once, in
\* the order the user picked them.
Selections ==
    {s \in UNION {[1..n -> {all_currencies[i] : i \in DOMAIN all_currencies}] :
                     n \in 0..Len(all_currencies)} :
        \A i, j \in DOMAIN s : s[i] = s[j] => i = j}

\* The provider's answers in a pass: one per selected counter.
QuotesFor(selected) ==
    {quotes \in [Counters -> ProviderOutcomes] :
        \A c \in Counters : ~InList(c, selected) => quotes[c] = NotAsked}

\* What the provider holds in a pass for the currencies of the two tables:
\* one history for the G10 pairs, one for the Emerging pairs.
RatesFor(base_ccy, g10_histories, em_histories) ==
    {[c \in RateCurrencies |->
         IF c = base_ccy THEN NotAsked
         ELSE IF InList(c, em_currencies) THEN e ELSE h] :
        h \in g10_histories, e \in em_histories}

\* The widgets of the page as a pass reads them.
FxWidgets(fx_table_base_currency, fx_quote_date, fx_base_currency, fx_unit_currency, button, selected) ==
    [fx_table_base_currency |-> fx_table_base_currency,
     fx_quote_date |-> fx_quote_date,
     fx_base_currency |-> fx_base_currency,
     fx_unit_currency |-> fx_unit_currency,
     button |-> button,
     selected_currencies |-> selected]

\* The provider's answers in a pass: the histories behind the two tables,
\* the two requests of the pair selector, the request of a charted pair
\* other than the selected one, and the quotes of the correlation tab.
FxProvider(rates, current, ytd, other, quotes) ==
    [rates |-> rates, current |-> current, ytd |-> ytd, other |-> other,
     quotes |-> quotes]

\* get_fx_data is memoised (st.cache_data): in a pass every call with the
\* same (base, unit, start, end) gets the same series.  Over the sidebar's
\* range the second tab asks for the selected pair, the third for each
\* charted pair, the fourth for USD against each selected counter; the
\* answer to the request for a pair (request: <<base, unit>>) is the
\* provider's answer for the selected pair, for the counter, or for any
\* other pair.
RangeAnswer(provider, pair, selected, request) ==
    IF request = pair THEN provider.current
    ELSE IF request[1] = base /\ request[2] \in Counters /\ InList(request[2], selected)
         THEN provider.quotes[request[2]]
    ELSE provider.other

\* What the correlation tab gets for each counter: the answer to its request
\* for USD against the counter when the counter is selected.
CorrelationQuotes(provider, pair, selected) ==
    [c \in Counters |->
        IF InList(c, selected) THEN RangeAnswer(provider, pair, selected, <<base, c>>)
        ELSE NotAsked]

\* The answer to the second request of the pair selector, from
\* ytd_start_date to selected_end: the same call as the first when the
\* sidebar's range starts on ytd_start_date.
YtdAnswer(provider) ==
    IF session.ytd_start_date = session.selected_start THEN provider.current
    ELSE provider.ytd

\* The body of render_fx_page given the two tables of its first tab (g10,
\* em), what the correlation tab gets for each counter (quotes) and the
\* calls of get_fx_rate_single_date stored once both tables are built
\* (stored).  The four tabs run in order: the G10 and the Emerging table,
\* the pair selector, the FX charts, the correlation matrix.  A KeyError of
\* build_fx_table_4cols escapes the page and ends the pass in the first
\* tab (the G10 table that raises has made no call).  A pressed button that
\* changes fx_chart_items ends the pass with st.rerun() where it stands, in
\* the second or in the third tab.
RenderFxTabs(widgets, provider, g10, em, quotes, stored) ==
    LET pair     == <<widgets.fx_base_currency, widgets.fx_unit_currency>>
        button   == widgets.button
        selected == widgets.selected_currencies
        escaped  == g10.raised \/ em.raised
        pair_tab == PairTab(widgets.fx_base_currency, widgets.fx_unit_currency,
                            provider.current, YtdAnswer(provider))
        added    == /\ button.name = "add_fx_btn"
                    /\ ~AnyWith(fx_chart_items, "pair", pair)
        rerun    == /\ ~escaped
                    /\ added \/ button.name \in {"clear_fx_btn", "remove_fx"}
        stopped  == escaped \/ rerun
        answers  == [request \in {fx_chart_items[i].pair : i \in DOMAIN fx_chart_items}
                        |-> RangeAnswer(provider, pair, selected, request)]
    IN  /\ button.name = "add_fx_btn" => pair_tab.add_button
        /\ button.name = "remove_fx" => button.index \in DOMAIN fx_chart_items
        /\ fx_widgets' = IF rerun THEN widgets ELSE NoWidgets
        /\ fx_answers' = IF rerun THEN provider ELSE NoAnswers
        /\ fx_rate_cache' = IF g10.raised THEN fx_rate_cache ELSE stored
        /\ fx_rates' = provider.rates
        /\ fx_table' = g10
        /\ fx_em_table' = IF g10.raised THEN NoTable ELSE em
        /\ fx_pair_tab' = IF escaped THEN NoPairTab ELSE pair_tab
        /\ fx_chart_items' =
               IF escaped THEN fx_chart_items
               ELSE IF added
               THEN AddFxPair(fx_chart_items, widgets.fx_base_currency,
                              widgets.fx_unit_currency)
               ELSE IF button.name = "clear_fx_btn" THEN <<>>
               ELSE IF button.name = "remove_fx"
                    THEN ListRemove(fx_chart_items, fx_chart_items[button.index])
               ELSE fx_chart_items
        /\ chart_last' = IF escaped \/ button.name = "none" THEN chart_last
                         ELSE button.name
        /\ fx_charts_tab' =
               IF stopped THEN NoChartsTab ELSE FxChartsTab(fx_chart_items, answers)
        /\ selected_currencies' = IF stopped THEN <<>> ELSE selected
        /\ fx_quotes' = IF stopped THEN [c \in Counters |-> NotAsked] ELSE quotes
        /\ fx_view' = IF stopped THEN NoView ELSE CorrelationTab(selected, quotes)
        /\ fx_pc' = IF escaped THEN "raised" ELSE IF rerun THEN "rerun" ELSE "done"

\* The calls of get_fx_rate_single_date stored once the G10 table is built.
AfterG10(fx_table_base_currency, fx_quote_date) ==
    fx_rate_cache
    \cup RateCalls(fx_table_base_currency,
                   WithoutCurrency(g10_currencies, fx_table_base_currency),
                   fx_quote_date)

\* The calls of get_fx_rate_single_date stored once both tables are built.
AfterTables(fx_table_base_currency, fx_quote_date) ==
    AfterG10(fx_table_base_currency, fx_quote_date)
    \cup RateCalls(fx_table_base_currency,
                   WithoutCurrency(em_currencies, fx_table_base_currency),
                   fx_quote_date)

\* One pass of render_fx_page, with the calls of get_fx_rate_single_date
\* that st.cache_data holds when it starts.
RenderFxPage(widgets, provider) ==
    RenderFxTabs(
        widgets, provider,
        RatesTable(widgets.fx_table_base_currency, widgets.fx_quote_date,
                   provider.rates, fx_rate_cache),
        EmergingTable(widgets.fx_table_base_currency, widgets.fx_quote_date,
                      provider.rates,
                      AfterG10(widgets.fx_table_base_currency, widgets.fx_quote_date)),
        CorrelationQuotes(provider,
                          <<widgets.fx_base_currency, widgets.fx_unit_currency>>,
                          widgets.selected_currencies),
        AfterTables(widgets.fx_table_base_currency, widgets.fx_quote_date))

\* The pass that st.rerun() starts: the script runs again at once, with the
\* widget values of the pass it ended and no button pressed.  The stores of
\* st.cache_data still hold the calls of that pass (ttl 600 s) and the
\* provider holds what it held.
Rerun ==
    /\ fx_pc = "rerun"
    /\ RenderFxPage([fx_widgets EXCEPT !.button = FxButton("none", 0)], fx_answers)

\* The pass is over and the next interaction comes after the ttl of
\* st.cache_data (600 s): nothing is stored for the requests of the next
\* pass and the provider answers each of them anew.
CacheExpires ==
    /\ fx_pc \in {"done", "raised"}
    /\ fx_widgets' = NoWidgets
    /\ fx_answers' = NoAnswers
    /\ fx_rate_cache' = {}
    /\ fx_pc' = "idle"
    /\ selected_currencies' = <<>>
    /\ fx_quotes' = [c \in Counters |-> NotAsked]
    /\ fx_view' = NoView
    /\ fx_rates' = [c \in RateCurrencies |-> NotAsked]
    /\ fx_table' = NoTable
    /\ fx_em_table' = NoTable
    /\ fx_pair_tab' = NoPairTab
    /\ fx_charts_tab' = NoChartsTab

\* The provider answers no request.
Down == Raised

\* The histories of the Emerging pairs that the passes follow.
EmHistories ==
    {Down,
     [raised |-> FALSE, close |-> [d \in {NewYear} |-> 2]],
     [raised |-> FALSE, close |-> [d \in {NewYear - 1, MaxDay} |-> 1]]}

\* The answers to the request from ytd_start_date that the passes follow.
YtdOutcomes ==
    {Down,
     [raised |-> FALSE, close |-> [d \in {1} |-> 2]],
     [raised |-> FALSE, close |-> [d \in {1, MaxDate} |-> IF d = 1 THEN 1 ELSE 2]]}

\* The multiselect as the page first draws it: its default, in the cut.
DefaultSelection == <<"USD", "EUR", "GBP">>

\* The widgets as the page first draws them, but for the given ones.
TableWidgets(fx_table_base_currency, fx_quote_date) ==
    FxWidgets(fx_table_base_currency, fx_quote_date, "EUR", "USD",
              FxButton("none", 0), DefaultSelection)

PairWidgets(fx_base_currency, fx_unit_currency, button) ==
    FxWidgets("USD", MaxDay, fx_base_currency, fx_unit_currency, button,
              DefaultSelection)

CorrelationWidgets(selected) ==
    FxWidgets("USD", MaxDay, "EUR", "USD", FxButton("none", 0), selected)

\* The provider answering the requests of the tables only.
TableProvider(rates) ==
    FxProvider(rates, Down, Down, Down, [c \in Counters |-> Down])

\* The provider answering the requests over the sidebar's range: `current`
\* for the selected pair, `ytd` from ytd_start_date, `other` for every
\* other pair, charted or asked by the correlation tab.
PairProvider(current, ytd, other) ==
    FxProvider([c \in RateCurrencies |-> Down], current, ytd, other,
               [c \in Counters |-> other])

\* The provider answering the requests of the correlation tab only.
CorrelationProvider(quotes) ==
    FxProvider([c \in RateCurrencies |-> Down], Down, Down, Down, quotes)

NextFX ==
    \/ /\ fx_pc = "idle"
       /\ \E selected \in Selections : \E quotes \in QuotesFor(selected) :
             RenderFxPage(CorrelationWidgets(selected), CorrelationProvider(quotes))
             /\ UNCHANGED <<selVars, eqVars, sbVars, fetchVars, dashVars, pageVars,
                            chart_items>>
    \/ /\ fx_pc = "idle"
       /\ \E fx_table_base_currency \in TableCurrencies, fx_quote_date \in QuoteDates :
             \E rates \in RatesFor(fx_table_base_currency, Histories, {Down})
                          \cup RatesFor(fx_table_base_currency, {Down}, EmHistories) :
                 RenderFxPage(TableWidgets(fx_table_base_currency, fx_quote_date),
                              TableProvider(rates))
                 /\ UNCHANGED <<selVars, eqVars, sbVars, fetchVars, dashVars, pageVars,
                                chart_items>>
    \/ /\ fx_pc = "idle"
       /\ \E fx_base_currency, fx_unit_currency \in PairCurrencies,
             current \in ProviderOutcomes, ytd \in YtdOutcomes :
             RenderFxPage(PairWidgets(fx_base_currency, fx_unit_currency,
                                      FxButton("none", 0)),
                          PairProvider(current, ytd, Down))
             /\ UNCHANGED <<selVars, eqVars, sbVars, fetchVars, dashVars, pageVars,
                            chart_items>>
    \/ CacheExpires /\ UNCHANGED <<selVars, eqVars, sbVars, appVars>>

SpecFX == Init /\ [][NextFX]_vars

\* One call of get_equity_data.
CallGetEquityData(history, n_main, n_ytd, mode) ==
    LET in == EquityInput(history, n_main, n_ytd, mode)
    IN  /\ eq_pc' = "returned"
        /\ eq_in' = in
        /\ eq_out' = get_equity_data(in.hist, in.ytd_data, in.data)

\* The caller has used the result.
EquityDone ==
    /\ eq_pc = "returned"
    /\ eq_pc' = "idle"
    /\ eq_in' = NoEquityInput
    /\ eq_out' = None

NextEq ==
    \/ /\ eq_pc = "idle"
       /\ \E history \in PriceHistories, mode \in FetchModes :
             \E n_main, n_ytd \in 0..Len(history) :
                 CallGetEquityData(history, n_main, n_ytd, mode)
                 /\ UNCHANGED <<selVars, fxVars, sbVars, appVars>>
    \/ EquityDone /\ UNCHANGED <<selVars, fxVars, sbVars, appVars>>

SpecEq == Init /\ [][NextEq]_vars

\* The pass in which 'Add to Chart' is pressed.
AddToChart(selected_chart_assets) ==
    /\ chart_items' = AddToChartLoop(chart_items, selected_chart_assets)
    /\ chart_last' = "add_chart_btn"
    /\ UNCHANGED fx_chart_items

\* The pass in which 'Clear Chart' is pressed.
ClearChart ==
    /\ chart_items' = <<>>
    /\ chart_last' = "clear_chart_btn"
    /\ UNCHANGED fx_chart_items

\* The pass in which the Remove button of the i-th chart item is pressed.
RemoveChartItem(i) ==
    /\ i \in DOMAIN chart_items
    /\ chart_items' = ListRemove(chart_items, chart_items[i])
    /\ chart_last' = "remove_chart"
    /\ UNCHANGED fx_chart_items

\* A pass in which the page selectbox differs from the session's page: the
\* page is stored and the script reruns before the date inputs.
PageChange(selected_page) ==
    /\ selected_page # session.page
    /\ session' = [session EXCEPT !.page = selected_page]
    /\ pass_end' = "rerun"
    /\ equity_calls' = {}

\* The sidebar's date block: the session after it.
SidebarDatesStored(selected_start, selected_end) ==
    [session EXCEPT !.selected_start = selected_start,
                    !.selected_end = selected_end,
                    !.ytd_start_date = YtdStartDate(selected_start, selected_end)]

\* A pass in which the Refresh button is pressed: the sidebar has stored the
\* dates, the script reruns before any page is rendered.
Refresh(selected_start, selected_end) ==
    /\ session' = SidebarDatesStored(selected_start, selected_end)
    /\ pass_end' = "rerun"
    /\ equity_calls' = {}

\* A pass that renders the session's page to its end.  The tables of the
\* pages other than FX are built from ticker lists that are never empty, and
\* every ticker is fetched with the dates of the sidebar.
RenderPage(selected_start, selected_end) ==
    /\ session' = SidebarDatesStored(selected_start, selected_end)
    /\ pass_end' = "rendered"
    /\ equity_calls' =
           IF session.page \in EquityPages
           THEN {EquityCall(selected_start, selected_end,
                            YtdStartDate(selected_start, selected_end))}
           ELSE {}

\* A pass of the Equity page in which 'Add to Chart' is pressed: the button
\* is in the page's sidebar block and the script reruns before the tabs.
EquityAddToChartPass(selected_start, selected_end, selected_chart_assets) ==
    /\ session.page = "Equity"
    /\ session' = SidebarDatesStored(selected_start, selected_end)
    /\ AddToChart(selected_chart_assets)
    /\ pass_end' = "rerun"
    /\ equity_calls' = {}

\* A pass of the Equity page in which the Remove button of the i-th chart
\* item is pressed: the button is in the third tab, the two tabs before it
\* have fetched their tables when the script reruns.
EquityRemoveChartPass(selected_start, selected_end, i) ==
    /\ session.page = "Equity"
    /\ session' = SidebarDatesStored(selected_start, selected_end)
    /\ RemoveChartItem(i)
    /\ pass_end' = "rerun"
    /\ equity_calls' = {EquityCall(selected_start, selected_end,
                                   YtdStartDate(selected_start, selected_end))}

\* The selections of the chart multiselect that the sidebar passes follow.
SidebarChartSelections ==
    {<<chart_assets(NoLookup)[1]>>, <<chart_assets(NoLookup)[2]>>}

NextSidebar ==
    \/ \E selected_page \in page_options :
          PageChange(selected_page) /\ UNCHANGED <<selVars, fxVars, eqVars, appVars>>
    \/ \E selected_start, selected_end \in SidebarDates :
          Refresh(selected_start, selected_end) /\ UNCHANGED <<selVars, fxVars, eqVars, appVars>>
    \/ \E selected_start, selected_end \in SidebarDates :
          RenderPage(selected_start, selected_end)
          /\ UNCHANGED <<selVars, fxVars, eqVars, appVars>>
    \/ /\ session.page = "Equity"
       /\ \E selected_start, selected_end \in SidebarDates,
             selected_chart_assets \in SidebarChartSelections :
             EquityAddToChartPass(selected_start, selected_end, selected_chart_assets)
             /\ UNCHANGED <<selVars, fxVars, eqVars, fetchVars, dashVars, pageVars>>
    \/ /\ session.page = "Equity"
       /\ \E selected_start, selected_end \in SidebarDates, i \in DOMAIN chart_items :
             EquityRemoveChartPass(selected_start, selected_end, i)
             /\ UNCHANGED <<selVars, fxVars, eqVars, fetchVars, dashVars, pageVars>>

SpecSidebar == Init /\ [][NextSidebar]_vars

\* A call of get_historical_data.
CallHistorical(outcome) ==
    /\ fetch_call = NoFetch
    /\ fetch_call' = [function |-> "get_historical_data", outcomes |-> <<outcome>>,
                      date |-> 0]
    /\ fetch_out' = get_historical_data(outcome)

\* A call of get_fx_data.
CallFxData(outcome) ==
    /\ fetch_call = NoFetch
    /\ fetch_call' = [function |-> "get_fx_data", outcomes |-> <<outcome>>, date |-> 0]
    /\ fetch_out' = FxDataCall(outcome)

\* A call of get_equity_data.
CallEquity(hist, ytd_data, data) ==
    /\ fetch_call = NoFetch
    /\ fetch_call' = [function |-> "get_equity_data",
                      outcomes |-> <<hist, ytd_data, data>>, date |-> 0]
    /\ fetch_out' = EquityDataCall(hist, ytd_data, data)

\* A call of get_fx_rate_single_date.
CallFxRate(history, date) ==
    /\ fetch_call = NoFetch
    /\ fetch_call' = [function |-> "get_fx_rate_single_date",
                      outcomes |-> <<history>>, date |-> date]
    /\ fetch_out' = FxRateCall(history, date)

\* The caller has the result and the next call can be made.
FetchDone ==
    /\ fetch_call # NoFetch
    /\ fetch_call' = NoFetch
    /\ fetch_out' = Returned(None)

otherThanFetch == <<selVars, fxVars, eqVars, sbVars, dashVars, pageVars, chartVars>>

NextFetch ==
    \/ /\ fetch_call = NoFetch
       /\ \E outcome \in DownloadOutcomes : CallHistorical(outcome)
       /\ UNCHANGED otherThanFetch
    \/ /\ fetch_call = NoFetch
       /\ \E outcome \in DownloadOutcomes : CallFxData(outcome)
       /\ UNCHANGED otherThanFetch
    \/ /\ fetch_call = NoFetch
       /\ \E hist, ytd_data, data \in OneColumnOutcomes : CallEquity(hist, ytd_data, data)
       /\ UNCHANGED otherThanFetch
    \/ /\ fetch_call = NoFetch
       /\ \E history \in Histories, date \in Days : CallFxRate(history, date)
       /\ UNCHANGED otherThanFetch
    \/ FetchDone /\ UNCHANGED otherThanFetch

SpecFetch == Init /\ [][NextFetch]_vars

\* A pass of the script with the page My Dashboard.
RenderMyDashboard(key, market, responses) ==
    /\ dash_call = NoDash
    /\ dash_call' = [key |-> key, market |-> market, responses |-> responses]
    /\ dash_out' = render_my_dashboard(key, market, responses)

\* The page is shown; the next pass starts from the session state.
DashboardShown ==
    /\ dash_call # NoDash
    /\ dash_call' = NoDash
    /\ dash_out' = NoPass

otherThanDash == <<selVars, fxVars, eqVars, sbVars, fetchVars, pageVars, chartVars>>

NextDashboard ==
    \/ /\ dash_call = NoDash
       /\ \E key \in FRED_API_KEYS, market \in Markets,
             responses \in [DOMAIN CENTRAL_BANK_SERIES -> FredOutcomes] :
              RenderMyDashboard(key, market, responses)
       /\ UNCHANGED otherThanDash
    \/ DashboardShown /\ UNCHANGED otherThanDash

SpecDashboard == Init /\ [][NextDashboard]_vars

\* The script can start a pass: the browser shows the last one, or the last
\* one ended at st.rerun().
PassCanStart == page_pass = NoPagePass \/ page_pass.rerun

\* The pass is started by the user, not by st.rerun().
UserStartsPass == page_pass = NoPagePass

StoresNow == Stores(selected_index_tickers, selected_equity_tickers)

\* The pass in which the user picks another page: the sidebar stores it and
\* calls st.rerun().
PageSelect(selected_page) ==
    /\ UserStartsPass
    /\ selected_page # view_page
    /\ view_page' = selected_page
    /\ page_pass' = Pass(view_page, "none", "none", StoresNow, NoResults, NoTab, NoTab,
                         "none", TRUE)
    /\ UNCHANGED <<selected_index_tickers, selected_equity_tickers>>

\* A pass that renders My Dashboard.
MyDashboardPass ==
    /\ PassCanStart
    /\ view_page = "My Dashboard"
    /\ selected_index_tickers' = initialize_selections(selected_index_tickers)
    /\ page_pass' = Pass(view_page, "none", page_pass.button, StoresNow, NoResults,
                         NoTab, NoTab, "none", FALSE)
    /\ UNCHANGED <<selected_equity_tickers, view_page>>

\* A pass that renders a page other than My Dashboard and Equity.
OtherPagePass ==
    /\ PassCanStart
    /\ view_page \notin {"My Dashboard", "Equity"}
    /\ page_pass' = Pass(view_page, "none", page_pass.button, StoresNow, NoResults,
                         NoTab, NoTab, "none", FALSE)
    /\ UNCHANGED <<selected_index_tickers, selected_equity_tickers, view_page>>

\* A pass of the Equity page in which the user pressed a sidebar button.
EquityButtonPass(button, selected_indices_full, selected_equities_display, lookup) ==
    /\ UserStartsPass
    /\ view_page = "Equity"
    /\ LET stores == equity_page_button(StoresNow, button, selected_indices_full,
                                        selected_equities_display, lookup)
       IN  /\ selected_index_tickers' = stores.indices
           /\ selected_equity_tickers' = stores.equities
    /\ page_pass' = Pass(view_page, button, "none", StoresNow, NoResults, NoTab, NoTab,
                         "none", TRUE)
    /\ UNCHANGED view_page

\* A pass of the Equity page in which no button is pressed.
EquityPagePass(results) ==
    /\ PassCanStart
    /\ view_page = "Equity"
    /\ LET pass == render_equity_page(StoresNow, results)
       IN  /\ selected_index_tickers' = pass.stores.indices
           /\ selected_equity_tickers' = pass.stores.equities
           /\ page_pass' = Pass(view_page, "none", page_pass.button, StoresNow, results,
                                pass.tab1, pass.tab2, pass.error, FALSE)
    /\ UNCHANGED view_page

\* The browser shows the page and waits for the user.
PageShown ==
    /\ page_pass # NoPagePass
    /\ ~page_pass.rerun
    /\ page_pass' = NoPagePass
    /\ UNCHANGED <<selected_index_tickers, selected_equity_tickers, view_page>>

\* The lookups that the passes of the Equity page follow: the provider
\* knows the long name of AIR.PA, and fails for SAP.DE or knows its names.
PageLookups ==
    {[t \in Tickers |-> StockInfo(t, IF t = "SAP.DE" THEN kind ELSE "long")] :
        kind \in {"raised", "long"}}

otherThanPages == <<selVars, fxVars, eqVars, sbVars, fetchVars, dashVars, chartVars>>

NextPages ==
    \/ /\ UserStartsPass
       /\ \E selected_page \in {"My Dashboard", "Equity", "FX"} : PageSelect(selected_page)
       /\ UNCHANGED otherThanPages
    \/ MyDashboardPass /\ UNCHANGED otherThanPages
    \/ OtherPagePass /\ UNCHANGED otherThanPages
    \/ /\ UserStartsPass /\ view_page = "Equity"
       /\ \E button \in IndexButtons \cup EquityButtons,
             selected_indices_full \in SubSeqs(IndexOptions) :
             \E selected_equities_display \in SubSeqs(EquityOptions(selected_indices_full)),
                lookup \in PageLookups :
                 EquityButtonPass(button, selected_indices_full,
                                  selected_equities_display, lookup)
       /\ UNCHANGED otherThanPages
    \/ /\ PassCanStart /\ view_page = "Equity"
       /\ \E results \in PageResults : EquityPagePass(results)
       /\ UNCHANGED otherThanPages
    \/ PageShown /\ UNCHANGED otherThanPages

SpecPages == Init /\ [][NextPages]_vars

otherThanCharts == <<selVars, fxVars, eqVars, sbVars, fetchVars, dashVars, pageVars>>

\* The answers to the requests of the pair selector and of the charts that
\* the passes with a button follow.
ChartOutcomes == {Down, [raised |-> FALSE, close |-> [d \in {1} |-> 2]]}

\* The pairs of the two select boxes that the passes with a button follow.
ChartPairs == {<<"EUR", "USD">>, <<"USD", "EUR">>, <<"EUR", "EUR">>}

NextCharts ==
    \/ /\ fx_pc = "idle"
       /\ \E lookup \in Lookups :
             \E selected_chart_assets \in SubSeqs(chart_assets(lookup)) :
                 AddToChart(selected_chart_assets) /\ UNCHANGED otherThanCharts
    \/ /\ fx_pc = "idle"
       /\ ClearChart /\ UNCHANGED otherThanCharts
    \/ /\ fx_pc = "idle"
       /\ \E i \in DOMAIN chart_items : RemoveChartItem(i) /\ UNCHANGED otherThanCharts
    \/ /\ fx_pc = "idle"
       /\ \E pair \in ChartPairs, current, other \in ChartOutcomes,
             button \in FxButtons(fx_chart_items) :
             RenderFxPage(PairWidgets(pair[1], pair[2], button),
                          PairProvider(current, Down, other))
             /\ UNCHANGED <<selVars, eqVars, sbVars, fetchVars, dashVars, pageVars,
                            chart_items>>
    \/ Rerun /\ UNCHANGED <<selVars, eqVars, sbVars, fetchVars, dashVars, pageVars,
                           chart_items>>
    \/ CacheExpires /\ UNCHANGED <<selVars, eqVars, sbVars, appVars>>

SpecCharts == Init /\ [][NextCharts]_vars

\* ------------------------------------------------------------------------
\* Claims about the selection store
\* ------------------------------------------------------------------------

\* tree[region][index] exists
HasCategory(selection_dict, region, index) ==
    DictHas(selection_dict, region) /\ DictHas(DictGet(selection_dict, region), index)

\* C1: after any sequence of add_to_selection / remove_from_selection calls
\* no region maps to an empty category mapping and no category maps to an
\* empty list.
C1_NoEmptyContainers ==
    \A a \in DOMAIN tree :
        /\ tree[a].v # <<>>
        /\ \A b \in DOMAIN tree[a].v : tree[a].v[b].v # <<>>

\* No list of the tree holds two entries with the same ticker.
UniqueTickers(selection_dict) ==
    \A a \in DOMAIN selection_dict : \A b \in DOMAIN selection_dict[a].v :
        LET list == selection_dict[a].v[b].v
        IN  \A p, q \in DOMAIN list : list[p].ticker = list[q].ticker => p = q

\* C2: entries are unique by ticker within their list, and adding a ticker
\* that its list already holds, with any label function, leaves the length
\* of get_all_selected_items unchanged.
C2_UniqueBySymbol ==
    /\ UniqueTickers(tree)
    /\ \A region \in Regions, index \in Indexes, ticker \in Tickers,
          display_name_func \in DisplayFuncs :
          \A lookup \in LookupsOf(display_name_func) :
              (\E i \in DOMAIN ListAt(tree, region, index) :
                   ListAt(tree, region, index)[i].ticker = ticker)
              => Len(get_all_selected_items(
                         add_to_selection(tree, region, index, <<ticker>>,
                                          display_name_func, lookup)))
                 = Len(get_all_selected_items(tree))

\* C3 as stated: after remove_from_selection(tree, region, index, symbols),
\* get_all_selected_items(tree) holds no record at all whose ticker is in
\* symbols.
C3_RemovedSymbolNowhere ==
    \A region \in Regions, index \in Indexes, symbols \in SUBSET Tickers :
        LET flat == get_all_selected_items(
                        remove_from_selection(tree, region, index, symbols))
        IN  \A i \in DOMAIN flat : flat[i].ticker \notin symbols

\* C3 amended: after remove_from_selection(tree, region, index, symbols),
\* get_all_selected_items(tree) holds no record of that region and index
\* whose ticker is in symbols.
C3_RemovedSymbolNotInCategory ==
    \A region \in Regions, index \in Indexes, symbols \in SUBSET Tickers :
        LET flat == get_all_selected_items(
                        remove_from_selection(tree, region, index, symbols))
        IN  \A i \in DOMAIN flat :
                (flat[i].region = region /\ flat[i].index = index)
                => flat[i].ticker \notin symbols

\* A remove took entries out of a list and left others in it.
C3_Witness ==
    /\ last.name = "remove"
    /\ last.had_ticker
    /\ ListAt(tree, last.region, last.index) # <<>>

\* C4: a remove on an existing region and category deletes the category key
\* exactly when no entry of its list survives the filter, deletes the region
\* key exactly when that leaves the region without category, and deletes no
\* other category and no other region.
C4_PruneExactly ==
    \A region \in Regions, index \in Indexes, symbols \in SUBSET Tickers :
        HasCategory(tree, region, index) =>
        LET post     == remove_from_selection(tree, region, index, symbols)
            pre_list == ListAt(tree, region, index)
            none_left == \A i \in DOMAIN pre_list : pre_list[i].ticker \in symbols
            only_cat  == Len(DictGet(tree, region)) = 1
        IN  /\ ~HasCategory(post, region, index) <=> none_left
            /\ ~DictHas(post, region) <=> (none_left /\ only_cat)
            /\ \A a \in DOMAIN tree :
                   tree[a].k # region => DictHas(post, tree[a].k)
            /\ \A b \in DOMAIN DictGet(tree, region) :
                   DictGet(tree, region)[b].k # index
                   => HasCategory(post, region, DictGet(tree, region)[b].k)

\* A remove deleted its category and the region lives on with another one.
C4_Witness ==
    /\ last.name = "remove"
    /\ last.had_index
    /\ DictHas(tree, last.region)
    /\ ~HasCategory(tree, last.region, last.index)

\* C5: remove_from_selection leaves the whole tree unchanged when the region
\* is absent, or present without the category.
C5_RemoveAbsentIsNoOp ==
    \A region \in Regions, index \in Indexes, symbols \in SUBSET Tickers :
        ~HasCategory(tree, region, index)
        => remove_from_selection(tree, region, index, symbols) = tree

\* A remove named a category missing from a region that exists.
C5_Witness ==
    /\ last.name = "remove"
    /\ last.had_region
    /\ ~last.had_index
    /\ LeafCount(tree) > 0

\* C6: on an empty tree, add_to_selection with tickers [s] and no label
\* function creates the region and category, and get_all_selected_items
\* returns exactly the record {region, index, ticker: s, display_name: s}.
C6_AddOnEmptyTree ==
    tree = <<>> =>
    \A region \in Regions, index \in Indexes, s \in Tickers :
        LET post == add_to_selection(tree, region, index, <<s>>, NoFunc, NoLookup)
        IN  /\ HasCategory(post, region, index)
            /\ get_all_selected_items(post)
               = << [region |-> region, index |-> index,
                     ticker |-> s, display_name |-> s] >>

\* An add on the empty tree made a tree of one entry labelled by its ticker.
C6_Witness ==
    /\ last.name = "add"
    /\ last.was_empty
    /\ LeafCount(tree) = 1
    /\ \E i \in DOMAIN ListAt(tree, last.region, last.index) :
           ListAt(tree, last.region, last.index)[i].display_name
           = ListAt(tree, last.region, last.index)[i].ticker

\* The leaves of a tree as <<region position, category position, list position>>.
Leaves(selection_dict) ==
    UNION { UNION { { <<a, b, c>> : c \in DOMAIN selection_dict[a].v[b].v }
                    : b \in DOMAIN selection_dict[a].v }
            : a \in DOMAIN selection_dict }

\* x comes before y, or is y, in (region, category, list) order.
LexLeq(x, y) ==
    \/ x[1] < y[1]
    \/ x[1] = y[1] /\ x[2] < y[2]
    \/ x[1] = y[1] /\ x[2] = y[2] /\ x[3] <= y[3]

\* C7: get_all_selected_items returns one record per leaf entry, ordered by
\* region insertion order, then category insertion order, then list
\* position, and the tree is the one it was called on.
C7_FlattenOrder ==
    last.name = "flatten" =>
    /\ Len(all_items) = Cardinality(Leaves(tree))
    /\ Len(all_items) = LeafCount(tree)
    /\ \A x \in Leaves(tree) :
           LET rank == Cardinality({y \in Leaves(tree) : LexLeq(y, x)})
               item == tree[x[1]].v[x[2]].v[x[3]]
           IN  all_items[rank] = [region |-> tree[x[1]].k,
                                  index |-> tree[x[1]].v[x[2]].k,
                                  ticker |-> item.ticker,
                                  display_name |-> item.display_name]

\* A flatten of a tree with two regions.
C7_Witness ==
    /\ last.name = "flatten"
    /\ Len(tree) = 2
    /\ Len(all_items) >= 2

\* ------------------------------------------------------------------------
\* Claims about the FX correlation tab
\* ------------------------------------------------------------------------

\* The dates present in every series of a dict of series.
CommonDates(returns_data) ==
    {d \in Dates : \A i \in DOMAIN returns_data : d \in DOMAIN returns_data[i].v}

\* The dates present in some series of a dict of series.
AllDates(returns_data) ==
    UNION {DOMAIN returns_data[i].v : i \in DOMAIN returns_data}

\* Number of observations of the series the page got for a counter.
Observations(c) == Cardinality(DOMAIN get_fx_data(fx_quotes[c]).data)

\* C8: when the alignment leaves zero or one included counter currency, or
\* no date common to all series, the page reports insufficient data and
\* computes no correlation matrix.
C8_InsufficientDataReported ==
    (/\ fx_pc = "done"
     /\ \/ Len(fx_view.returns_data) <= 1
        \/ CommonDates(fx_view.returns_data) = {})
    => /\ fx_view.message # "matrix"
       /\ fx_view.corr_matrix = NoMatrix

\* C9: a selected counter whose series is absent or has fewer than 2
\* observations is in neither the correlation matrix nor the mean-return
\* map, and every other selected counter is still processed.
C9_UnusableCounterDropped ==
    (fx_pc = "done" /\ Len(selected_currencies) > 1) =>
    \A c \in Counters :
        InList(c, selected_currencies) =>
        IF Observations(c) < 2
        THEN /\ ~DictHas(fx_view.returns_data, c)
             /\ ~DictHas(fx_view.mean_daily_returns, c)
             /\ ~InList(c, fx_view.returns_df.columns)
             /\ ~InList(c, fx_view.corr_matrix.columns)
        ELSE /\ DictHas(fx_view.returns_data, c)
             /\ DictHas(fx_view.mean_daily_returns, c)

\* A matrix was shown although one selected counter had a single observation.
C9_Witness ==
    /\ fx_pc = "done"
    /\ fx_view.message = "matrix"
    /\ \E c \in Counters :
           /\ InList(c, selected_currencies)
           /\ Observations(c) = 1
    /\ \E c \in Counters : InList(c, fx_view.corr_matrix.columns)

\* C10: the matrix is computed over exactly the dates present in the return
\* series of every included counter: the aligned frame has those rows, and
\* each coefficient of two counters is the Pearson correlation of their
\* return series over those dates.
C10_InnerJoin ==
    fx_view.message = "matrix" =>
    LET rd     == fx_view.returns_data
        common == CommonDates(rd)
    IN  /\ fx_view.returns_df.index = common
        /\ \A i, j \in DOMAIN rd :
               fx_view.corr_matrix.value[rd[i].k][rd[j].k]
               = OverRows(rd[i].v, rd[j].v, common)

\* A matrix of two counters of which one lacks a date the other has.
C10_Witness ==
    /\ fx_view.message = "matrix"
    /\ Len(fx_view.returns_data) = 2
    /\ CommonDates(fx_view.returns_data) # {}
    /\ AllDates(fx_view.returns_data) # CommonDates(fx_view.returns_data)

\* The columns of a frame as a set.
ColumnSet(df) == {df.columns[i] : i \in DOMAIN df.columns}

\* C11: when USD is selected, its synthesized return at each aligned date is
\* the mean of the returns at that date of the included counters and of
\* nothing else: n * USD(d) = R1(d) + ... + Rn(d).
C11_BasketIsMean ==
    (fx_view.message = "matrix" /\ InList("USD", selected_currencies)) =>
    LET rd == fx_view.returns_data
        df == fx_view.returns_df
    IN  /\ InList("USD", df.columns)
        /\ \A d \in df.index :
               RMul(<<Len(rd), 1>>, df.data["USD"][d])
               = RSum([i \in DOMAIN rd |-> rd[i].v[d]], DOMAIN rd)

\* A basket of two counters whose returns differ at an aligned date.
C11_Witness ==
    /\ fx_view.message = "matrix"
    /\ InList("USD", selected_currencies)
    /\ Len(fx_view.returns_data) = 2
    /\ \E d \in fx_view.returns_df.index :
           fx_view.returns_data[1].v[d] # fx_view.returns_data[2].v[d]

\* The first observation on or after January 1st of the quote date's year,
\* up to the quote date, if there is one.
FirstOfYear(history, quote_date) ==
    LET S == {d \in DOMAIN history.close : YearStart(quote_date) <= d /\ d <= quote_date}
    IN  IF history.raised \/ S = {} THEN None
        ELSE Some(Rat(history.close[CHOOSE d \in S : \A e \in S : d <= e], 1))

\* C12: the base is never a counter of itself. In the correlation tab and in
\* the rates table no series of base against base is requested and no row
\* pairs the base with itself, whatever list build_fx_table_4cols is given;
\* the base is a column of the correlation matrix only when it was selected,
\* and it is then the synthesized basket, not a fetched series.
C12_BaseNeverItsOwnCounter ==
    /\ \A i \in DOMAIN fx_view.fetched :
           fx_view.fetched[i][1] = base /\ fx_view.fetched[i][2] # base
    /\ ~DictHas(fx_view.returns_data, base)
    /\ InList(base, fx_view.returns_df.columns) =>
           /\ InList(base, selected_currencies)
           /\ fx_view.returns_df.data[base]
              = RowMean(DropNaAny(DataFrame(fx_view.returns_data)))
    /\ \A i \in DOMAIN fx_table.fetched : fx_table.fetched[i][1] # fx_table.fetched[i][2]
    /\ \A i \in DOMAIN fx_table.rows : fx_table.rows[i].Pair[1] # fx_table.rows[i].Pair[2]
    /\ \A i \in DOMAIN fx_em_table.fetched :
           fx_em_table.fetched[i][1] # fx_em_table.fetched[i][2]
    /\ \A i \in DOMAIN fx_em_table.rows :
           fx_em_table.rows[i].Pair[1] # fx_em_table.rows[i].Pair[2]
    /\ fx_table.shown =>
           LET built == build_fx_table_4cols(fx_table.base_ccy, g10_currencies,
                                             fx_table.quote_date, fx_rates, {})
           IN  /\ \A i \in DOMAIN built.fetched : built.fetched[i][2] # fx_table.base_ccy
               /\ \A i \in DOMAIN built.rows : built.rows[i].Pair[2] # fx_table.base_ccy
               /\ Len(built.rows) = Len(g10_currencies) - 1

\* The base is selected first, two counters are fetched and the matrix holds
\* the base as a column; both tables of the pass made their requests.
C12_Witness ==
    /\ fx_table.shown /\ fx_table.fetched # <<>>
    /\ fx_em_table.shown /\ fx_em_table.fetched # <<>>
    /\ fx_view.message = "matrix"
    /\ selected_currencies # <<>>
    /\ selected_currencies[1] = base
    /\ Len(fx_view.fetched) = 2
    /\ InList(base, fx_view.corr_matrix.columns)

\* The coefficient 1.
One == [nan |-> FALSE, sign |-> 1, sq |-> <<1, 1>>]

\* C13: the correlation matrix is symmetric, and the diagonal entry of an
\* asset is 1 exactly when its aligned return series has nonzero variance
\* (two of its aligned returns differ).
C13_SymmetricUnitDiagonal ==
    fx_view.message = "matrix" =>
    LET df == fx_view.returns_df
        m  == fx_view.corr_matrix.value
    IN  \A a \in ColumnSet(df) :
            /\ \A b \in ColumnSet(df) : m[a][b] = m[b][a]
            /\ m[a][a] = One
               <=> \E d, e \in df.index : df.data[a][d] # df.data[a][e]

\* A matrix with a coefficient that is neither undefined nor on the diagonal.
C13_Witness ==
    /\ fx_view.message = "matrix"
    /\ \E a, b \in ColumnSet(fx_view.returns_df) :
           /\ a # b
           /\ ~fx_view.corr_matrix.value[a][b].nan
           /\ fx_view.corr_matrix.value[a][a] = One

\* C14: for every column of the correlation matrix the reported mean return
\* is 100 times the arithmetic mean of that column's aligned return series,
\* the series that enters the correlation.
C14_MeanOfAlignedSeries ==
    fx_view.message = "matrix" =>
    \A a \in ColumnSet(fx_view.returns_df) :
        /\ DictHas(fx_view.mean_daily_returns, a)
        /\ DictGet(fx_view.mean_daily_returns, a)
           = RMul(SeriesMean(fx_view.returns_df.data[a]), <<100, 1>>)

\* C19: in the rates table the YTD % of a pair is the change from the first
\* observation on or after January 1st of the quote date's year to the rate
\* at the quote date, and no observation before that January 1st is its base.
C19_YtdFromFirstOfYear ==
    fx_table.shown =>
    \A i \in DOMAIN fx_table.rows :
        LET row == fx_table.rows[i]
        IN  row.YTD = YtdChange(row.Value,
                                FirstOfYear(fx_rates[row.Pair[2]], fx_table.quote_date))

\* ------------------------------------------------------------------------
\* Claims about get_equity_data
\* ------------------------------------------------------------------------

\* Some provider call delivered the main series of the call.
Delivered == ~eq_in.hist.raised \/ ~eq_in.data.raised

\* The main series the call worked on: of the primary path if stock.history
\* answered, else of the fallback download.
MainSeries == IF ~eq_in.hist.raised THEN eq_in.hist.close ELSE eq_in.data.close

\* (last - past) / past * 100 on integer closes.
PctOfClose(last_close, past) == Rat((last_close - past) * 100, past)

\* C15: whenever the denominator of the daily, 1-week or YTD change is zero,
\* get_equity_data reports that metric as not-available, never as a number.
\* (No exception reaches the caller: the call always returns.)
C15_ZeroDenominatorNotAvailable ==
    (eq_pc = "returned" /\ ~eq_out.none) =>
    LET s == MainSeries
        n == Len(s)
        y == eq_in.ytd_data
    IN  /\ s[n - 1] = 0 => IsNaN(eq_out.data.Daily)
        /\ (n >= 6 /\ s[n - 5] = 0) => IsNaN(eq_out.data.Week)
        /\ (~eq_in.hist.raised /\ ~y.raised /\ Len(y.close) >= 2 /\ y.close[1] = 0)
               => IsNaN(eq_out.data.YTD)

\* C16: for a delivered series of 2 or more observations the call reports
\* Daily % = (last - prev) / prev * 100 when prev > 0 and 0 otherwise, on the
\* primary and on the fallback path.
C16_DailyChange ==
    (eq_pc = "returned" /\ Delivered /\ Len(MainSeries) >= 2) =>
    LET s == MainSeries
        n == Len(s)
    IN  /\ ~eq_out.none
        /\ eq_out.data.Daily
           = IF s[n - 1] > 0 THEN PctOfClose(s[n], s[n - 1]) ELSE <<0, 1>>

\* The fallback path delivered a series whose previous close is negative and
\* differs from the last close.
C16_Witness ==
    /\ eq_pc = "returned"
    /\ eq_in.hist.raised /\ ~eq_in.data.raised
    /\ Len(eq_in.data.close) >= 2
    /\ eq_in.data.close[Len(eq_in.data.close) - 1] < 0
    /\ eq_in.data.close[Len(eq_in.data.close)] > 0
    /\ ~eq_out.none /\ eq_out.data.Daily = <<0, 1>>

\* C17: for 2 <= n < 6 observations 1 Week % is not-available while Value
\* and Daily % are reported; for n >= 6 it is (last - v) / v * 100 with v the
\* sixth observation from the end (not-available when v = 0).
C17_WeekChange ==
    (eq_pc = "returned" /\ Delivered) =>
    LET s == MainSeries
        n == Len(s)
    IN  /\ (2 <= n /\ n < 6) =>
               /\ ~eq_out.none
               /\ IsNaN(eq_out.data.Week)
               /\ ~IsNaN(eq_out.data.Value) /\ ~IsNaN(eq_out.data.Daily)
        /\ n >= 6 =>
               /\ ~eq_out.none
               /\ eq_out.data.Week = PctOfClose(s[n], s[n - 5])

\* C18: YTD % is (last - first) / first * 100 with first the first
\* observation of the series from the YTD start date whenever that series has
\* 2 or more observations, and undefined otherwise, whichever fetch path
\* delivered the main series.
C18_YtdChange ==
    (eq_pc = "returned" /\ ~eq_out.none) =>
    LET s == MainSeries
        y == eq_in.ytd_data
    IN  eq_out.data.YTD
        = IF ~y.raised /\ Len(y.close) >= 2
          THEN PctOfClose(s[Len(s)], y.close[1]) ELSE NaN

\* ------------------------------------------------------------------------
\* Claims about the sidebar
\* ------------------------------------------------------------------------

\* C20: the session's ytd_start_date is January 1st of the year of the
\* session's selected end date whatever the start date is, and every
\* get_equity_data call of a pass is given that date as its YTD start.
C20_YtdStartOfEndYear ==
    /\ session.ytd_start_date = JanuaryFirst(session.selected_end.year)
    /\ \A call \in equity_calls :
           /\ call.end_date = session.selected_end
           /\ call.start_date = session.selected_start
           /\ call.ytd_start_date = session.ytd_start_date

\* A rendered pass with calls whose start date lies in the year after the
\* end date's year.
C20_Witness ==
    /\ pass_end = "rendered"
    /\ equity_calls # {}
    /\ session.selected_start.year > session.selected_end.year
    /\ session.ytd_start_date.year = session.selected_end.year

\* ------------------------------------------------------------------------
\* More claims about the selection store
\* ------------------------------------------------------------------------

\* C25: remove_from_selection changes only the list tree[region][category].
\* Every other category of the region and every other region keeps its list
\* (same entries, same order), no key appears, the surviving keys keep their
\* order, and the survivors of the filtered list are its entries whose ticker
\* is not in symbols, in their old order.
C25_RemoveFrame ==
    \A region \in Regions, index \in Indexes, symbols \in SUBSET Tickers :
        LET post == remove_from_selection(tree, region, index, symbols)
            pre_list == ListAt(tree, region, index)
        IN  /\ \A r \in Regions, c \in Indexes :
                   (r # region \/ c # index) =>
                       /\ HasCategory(post, r, c) <=> HasCategory(tree, r, c)
                       /\ ListAt(post, r, c) = ListAt(tree, r, c)
            /\ Keys(post) = SelectSeq(Keys(tree), LAMBDA k : DictHas(post, k))
            /\ \A a \in DOMAIN post :
                   Keys(post[a].v)
                   = SelectSeq(Keys(DictGet(tree, post[a].k)),
                               LAMBDA k : DictHas(post[a].v, k))
            /\ ListAt(post, region, index)
               = SelectSeq(pre_list, LAMBDA item : item.ticker \notin symbols)

\* A remove filtered its list away and another region stands as it was.
C25_Witness ==
    /\ last.name = "remove"
    /\ last.had_ticker
    /\ tree # <<>>
    /\ ~DictHas(tree, last.region)

\* ------------------------------------------------------------------------
\* Claims about the fetch functions
\* ------------------------------------------------------------------------

\* C21: get_equity_data, get_historical_data and get_fx_data never raise to
\* their caller: whatever the provider does (exception, empty frame, short
\* frame, frame without a Close column) the call returns, and it returns
\* None when the provider raised and the function has no other source.
C21_FetchNeverRaises ==
    fetch_call.function \in {"get_equity_data", "get_historical_data", "get_fx_data"} =>
        /\ fetch_out.status = "returned"
        /\ (fetch_call.function # "get_equity_data"
            /\ fetch_call.outcomes[1].kind = "exception") => fetch_out.value.none
        /\ (fetch_call.function = "get_equity_data"
            /\ fetch_call.outcomes[1].kind = "exception"
            /\ fetch_call.outcomes[3].kind = "exception") => fetch_out.value.none

\* get_historical_data was called and the download raised.
C21_Witness ==
    /\ fetch_call.function = "get_historical_data"
    /\ fetch_call.outcomes[1].kind = "exception"
    /\ fetch_out = Returned(None)

\* The days with an observation that lie in the LookbackDays days before the
\* date, or on it.
RecentDays(history, date) ==
    {d \in DOMAIN history.close : date - LookbackDays <= d /\ d <= date}

\* C30: get_fx_rate_single_date returns the rate observed on the date when
\* there is one, otherwise the rate of the latest observation before the date
\* within the 7 preceding days, and None when there is none or the fetch
\* fails; it never returns the rate of a later observation and never raises.
C30_RateOnOrBeforeDate ==
    fetch_call.function = "get_fx_rate_single_date" =>
    LET history == fetch_call.outcomes[1]
        date    == fetch_call.date
        recent  == RecentDays(history, date)
    IN  /\ fetch_out.status = "returned"
        /\ fetch_out.value
           = IF history.raised \/ recent = {} THEN None
             ELSE IF date \in recent THEN Some(<<history.close[date], 1>>)
             ELSE Some(<<history.close[CHOOSE d \in recent : \A e \in recent : e <= d], 1>>)

\* The date has no observation, an earlier day of the window and a later day
\* have one, at different rates, and the earlier rate is returned.
C30_Witness ==
    /\ fetch_call.function = "get_fx_rate_single_date"
    /\ ~fetch_out.value.none
    /\ LET history == fetch_call.outcomes[1]
           date    == fetch_call.date
       IN  /\ date \notin DOMAIN history.close
           /\ \E d, e \in DOMAIN history.close :
                  /\ d < date /\ date < e
                  /\ history.close[d] # history.close[e]
                  /\ fetch_out.value = Some(<<history.close[d], 1>>)

\* ------------------------------------------------------------------------
\* Claims about My Dashboard
\* ------------------------------------------------------------------------

\* A pass of My Dashboard was made with a configured key.
ConfiguredPass == dash_call # NoDash /\ dash_call.key # Placeholder

\* C28: get_central_bank_data returns exactly one row per entry of
\* CENTRAL_BANK_SERIES, in configuration order, whatever each FRED request
\* does; the result is never empty and the early return of
\* render_my_dashboard is never taken.
C28_OneRowPerBank ==
    ConfiguredPass =>
        /\ Len(dash_out.central_banks) = Len(CENTRAL_BANK_SERIES)
        /\ \A i \in DOMAIN CENTRAL_BANK_SERIES :
               /\ dash_out.central_banks[i].Bank = CENTRAL_BANK_SERIES[i].k
               /\ dash_out.central_banks[i].FREDSeries = CENTRAL_BANK_SERIES[i].v
        /\ dash_out.central_banks # <<>>
        /\ ~dash_out.returned

\* The first request raised, the second returned an empty series, and both
\* banks have their row.
C28_Witness ==
    /\ ConfiguredPass
    /\ dash_call.responses[1].kind = "exception"
    /\ dash_call.responses[2] = [kind |-> "series", series |-> <<>>]
    /\ Len(dash_out.central_banks) = 2
    /\ dash_out.central_banks[1].CurrentRate.text = "Error"

\* C29: for every bank whose fetched series is non-empty the Current Rate
\* field is the latest observation with two decimals and a '%' sign; the
\* field is 'N/A' only when the fetched series is empty.
C29_CurrentRateIsLatest ==
    ConfiguredPass =>
        \A i \in DOMAIN CENTRAL_BANK_SERIES :
            LET outcome == dash_call.responses[i]
                field   == dash_out.central_banks[i].CurrentRate
            IN  /\ (outcome.kind = "series" /\ outcome.series # <<>>) =>
                       field = TwoDecimalsPct(outcome.series[Len(outcome.series)])
                /\ field.text = "N/A" =>
                       (outcome.kind = "series" /\ outcome.series = <<>>)

\* C23: with the placeholder key a pass of render_my_dashboard reports the
\* missing key, makes no FRED request and shows the Economic Indicators table
\* and every market table that has a row, as the provider's answers alone
\* decide; with a configured key no FRED outcome keeps the Economic
\* Indicators table from being shown.
C23_FredIsNotFatal ==
    dash_call # NoDash =>
        /\ "Economic Indicators" \in dash_out.tables
        /\ \A table \in MarketTables :
               table \in dash_out.tables
                   <=> \E i \in DOMAIN dash_call.market[table] : dash_call.market[table][i]
        /\ dash_call.key = Placeholder =>
               /\ "FRED API Key not configured!" \in dash_out.messages
               /\ dash_out.requests = 0
               /\ "Central Banks" \notin dash_out.tables

\* The key is the placeholder, FRED would raise at every request, and the
\* pass shows the three market tables and the Economic Indicators table.
C23_Witness ==
    /\ dash_call # NoDash
    /\ dash_call.key = Placeholder
    /\ \A i \in DOMAIN CENTRAL_BANK_SERIES : dash_call.responses[i].kind = "exception"
    /\ dash_out.tables = MarketTables \cup {"Economic Indicators"}
    /\ dash_out.requests = 0

\* The key is configured, every FRED request raises, and the Economic
\* Indicators table is shown below the table of error rows.
C23_FailureWitness ==
    /\ ConfiguredPass
    /\ \A i \in DOMAIN CENTRAL_BANK_SERIES : dash_call.responses[i].kind = "exception"
    /\ {"Central Banks", "Economic Indicators"} \subseteq dash_out.tables

\* ------------------------------------------------------------------------
\* Claims about the selection stores of the session and the Equity page
\* ------------------------------------------------------------------------

\* C24: the index and equity selection trees change only in a pass where the
\* user pressed an add or remove button: a pass in which no such button was
\* pressed leaves both trees as it found them.
C24_TreesChangeOnlyOnButtons ==
    (page_pass # NoPagePass /\ page_pass.button = "none") =>
        StoresNow = page_pass.before

\* The last pass rendered the Equity page to its end and built the tabs.
TabsBuilt ==
    /\ page_pass.page = "Equity"
    /\ page_pass.button = "none"
    /\ ~page_pass.rerun

\* C26: whenever the Market Indices tab is built the index selection is not
\* empty: it is the full default set, also in the pass after 'Clear
\* Indices', and the Individual Equities tab never meets an undefined
\* color_pct.
C26_IndexSelectionNeverEmpty ==
    TabsBuilt =>
        /\ selected_index_tickers # <<>>
        /\ page_pass.tab1.items = IndexOptions
        /\ page_pass.tab1.rows # <<>>
        /\ page_pass.error = "none"

\* The pass after 'Clear Indices' found the store empty and shows every index
\* and a table of equities.
C26_Witness ==
    /\ TabsBuilt
    /\ page_pass.after = "idx_clear_btn"
    /\ page_pass.before.indices = <<>>
    /\ page_pass.tab1.items = IndexOptions
    /\ page_pass.tab2.rows # <<>>

\* The rows of a table that stand for a selected item.
TickerRowsOf(tab) == SelectSeq(tab.rows, LAMBDA row : row.kind = "ticker")

\* The i-th ticker row of the table is the row of the i-th selected item:
\* 'N/A' four times when its fetch returned None, its own values otherwise.
RowsMatchItems(tab, results) ==
    LET rows == TickerRowsOf(tab)
    IN  /\ Len(rows) = Len(tab.items)
        /\ \A i \in DOMAIN tab.items :
               LET result == results[tab.items[i].ticker]
               IN  /\ rows[i].label = tab.items[i].display_name
                   /\ result.none =>
                          /\ rows[i].Value = NotAvailable
                          /\ rows[i].Daily = NotAvailable
                          /\ rows[i].Week = NotAvailable
                          /\ rows[i].YTD = NotAvailable
                   /\ ~result.none =>
                          /\ rows[i].Value = format_value(Cell("number", result.data.Value))
                          /\ rows[i].Daily = format_percentage(Cell("number", result.data.Daily))
                          /\ rows[i].Week = format_percentage(Cell("number", result.data.Week))
                          /\ rows[i].YTD = format_percentage(Cell("number", result.data.YTD))

\* C22: in the Market Indices and Individual Equities tables a selected
\* ticker whose fetch returns None has one row with 'N/A' in the four value
\* fields, every other selected ticker has its own row with its own values,
\* and there are as many ticker rows as selected items.
C22_OneRowPerSelectedItem ==
    TabsBuilt =>
        /\ RowsMatchItems(page_pass.tab1, page_pass.results)
        /\ RowsMatchItems(page_pass.tab2, page_pass.results)

\* Two equities are selected, the fetch of the first returns None and the
\* fetch of the second a value; one index fetch returns None as well.
C22_Witness ==
    /\ TabsBuilt
    /\ Len(page_pass.tab2.items) = 2
    /\ page_pass.results[page_pass.tab2.items[1].ticker].none
    /\ ~page_pass.results[page_pass.tab2.items[2].ticker].none
    /\ page_pass.results["^FCHI"].none
    /\ Len(TickerRowsOf(page_pass.tab2)) = 2
    /\ TickerRowsOf(page_pass.tab2)[1].Value = NotAvailable
    /\ TickerRowsOf(page_pass.tab2)[2].Value.text = "decimal"

\* ------------------------------------------------------------------------
\* Claims about the chart lists
\* ------------------------------------------------------------------------

\* No two elements of the sequence are equal.
Distinct(s) == \A i, j \in DOMAIN s : i # j => s[i] # s[j]

\* C27: after any sequence of add, remove and clear actions chart_items holds
\* no two items with the same ticker and fx_chart_items no two items with the
\* same pair, so the keys of the Remove buttons are pairwise distinct.
C27_NoDuplicateChartItems ==
    /\ Distinct([i \in DOMAIN chart_items |-> chart_items[i].ticker])
    /\ Distinct([i \in DOMAIN fx_chart_items |-> fx_chart_items[i].pair])
    /\ Distinct(RemoveKeys("remove_chart_", chart_items, "ticker"))
    /\ Distinct(RemoveKeys("remove_fx_", fx_chart_items, "pair"))

\* An item was removed, the equity is charted under its ticker label (added
\* in a pass whose lookup gave no name) next to another asset, and two pairs
\* are charted.
C27_Witness ==
    /\ chart_last = "remove_chart"
    /\ Len(chart_items) = 2
    /\ AnyWith(chart_items, "display", <<"SAP.DE", "SAP.DE">>)
    /\ Len(fx_chart_items) = 2

====
